---- MODULE Spec2Model ----
(***************************************************************************)
(* MailSync_Automation: the state ledger (src/src/state_manager.py) and    *)
(* the orchestration of one run (src/src/main.py) as a state machine.      *)
(*                                                                         *)
(* Spec        the pipeline: repeated invocations of main(), with crashes  *)
(* SpecLedger  the StateManager API driven on its own, on any ledger file  *)
(***************************************************************************)
EXTENDS Integers, Sequences, FiniteSets, TLC

\* ------------------------------------------------------------------ bounds
NumMsgs   == 2      \* message ids are 1..NumMsgs
MaxRuns   == 2      \* invocations of main() in one behaviour
MaxOps    == 3      \* calls made on StateManager instances in SpecLedger
MaxListLen == 2     \* length of the id lists handed to filter_new_messages
MaxKeep   == 2      \* keep_count handed to remove_old_entries is 0..MaxKeep
MaxContentLen == 2  \* length of a message body, in tokens
MaxRules  == 2      \* number of categories in the rule table
MaxDateWords == 2   \* number of date expressions in a text
ContentCap == 1     \* the extractors' cap on the body (content[:2000]), in tokens

MsgIds == 1..NumMsgs

\* config.MAX_RESULTS
MAX_RESULTS == 10

\* ------------------------------------------------------- python/json values
\* A Python (and JSON) value, tagged with its type.
PyList(s) == [kind |-> "list", items |-> s,    num |-> 0]
PyInt(n)  == [kind |-> "int",  items |-> <<>>, num |-> n]
PyStr(t)  == [kind |-> "str",  items |-> <<>>, num |-> t]
PyNone    == [kind |-> "null", items |-> <<>>, num |-> 0]

K_ids   == "processed_message_ids"
K_ts    == "last_run_timestamp"
K_total == "total_emails_processed"

\* order in which the keys of the state dict were inserted
KeyOrder == <<K_ids, K_ts, K_total>>

\* StateManager._initialize_state: the empty state
EmptyState ==
    [k \in {K_ids, K_ts, K_total} |->
        IF k = K_ids THEN PyList(<<>>)
        ELSE IF k = K_ts THEN PyNone ELSE PyInt(0)]

\* ------------------------------------------------------------- ledger file
\* The durable file: absent, unreadable, not JSON, JSON that is no object,
\* or a JSON object written as its sequence of key/value members.
NoFile        == [kind |-> "missing",    text |-> <<>>]
UnreadableFile == [kind |-> "unreadable", text |-> <<>>]
BadJsonFile   == [kind |-> "badjson",    text |-> <<>>]
NonDictFile   == [kind |-> "nondict",    text |-> <<>>]
ObjectFile(t) == [kind |-> "object",     text |-> t]

RECURSIVE DumpKeys(_, _)
DumpKeys(d, ks) ==
    IF ks = <<>> THEN <<>>
    ELSE IF Head(ks) \in DOMAIN d
         THEN <<[key |-> Head(ks), val |-> d[Head(ks)]]>> \o DumpKeys(d, Tail(ks))
         ELSE DumpKeys(d, Tail(ks))

\* a dump that leaves the lifetime counter out
json_dump_without_total(d) == DumpKeys(d, <<K_ids, K_ts>>)

\* json.dump(self.state, f): the members of the dict, one after another
json_dump(d) == DumpKeys(d, KeyOrder)

RECURSIVE LoadMembers(_, _)
LoadMembers(t, acc) ==
    IF t = <<>> THEN acc
    ELSE LoadMembers(Tail(t),
            [k \in DOMAIN acc \cup {Head(t).key} |->
                IF k = Head(t).key THEN Head(t).val ELSE acc[k]])

\* json.load(f) on an object: a dict, a later member overriding an earlier one
json_load(t) == LoadMembers(t, [k \in {} |-> PyNone])

\* len(x) is defined for lists and strings only
HasLen(v) == v.kind \in {"list", "str"}

\* StateManager.__init__ + load_state: the in-memory state after construction
load_state(f) ==
    IF f.kind = "object"
    THEN LET d == json_load(f.text)
         IN IF K_ids \in DOMAIN d /\ HasLen(d[K_ids]) THEN d ELSE EmptyState
    ELSE EmptyState

\* ---------------------------------------------------------- ledger queries
\* the list stored under 'processed_message_ids'
ProcessedIds(s) == s[K_ids].items

SeqToSet(q) == {q[j] : j \in 1..Len(q)}

is_processed(s, message_id) == message_id \in SeqToSet(ProcessedIds(s))

\* self.state['total_emails_processed'] += 1 raises when the key is missing
\* or holds no number
CanCount(s) == K_total \in DOMAIN s /\ s[K_total].kind = "int"

\* a mark without the membership test: appends and counts every time
mark_without_check(s, message_id) ==
    LET appended == [s EXCEPT ![K_ids] = PyList(Append(s[K_ids].items, message_id))]
    IN IF CanCount(s)
       THEN [state  |-> [appended EXCEPT ![K_total] = PyInt(s[K_total].num + 1)],
             raised |-> FALSE]
       ELSE [state |-> appended, raised |-> TRUE]

\* StateManager.mark_as_processed: the new state, and whether it raised
mark_as_processed(s, message_id) ==
    IF s[K_ids].kind # "list"
    THEN [state |-> s, raised |-> TRUE]       \* 'in' / .append on a non-list
    ELSE IF is_processed(s, message_id)
    THEN [state |-> s, raised |-> FALSE]
    ELSE LET appended == [s EXCEPT ![K_ids] = PyList(Append(s[K_ids].items, message_id))]
         IN IF CanCount(s)
            THEN [state  |-> [appended EXCEPT ![K_total] = PyInt(s[K_total].num + 1)],
                  raised |-> FALSE]
            ELSE [state |-> appended, raised |-> TRUE]

\* a filter that lets every id through
filter_keeps_all(s, message_ids) == message_ids

\* a filter that also drops an id it has already let through
filter_drops_repeats(s, message_ids) ==
    LET fresh(j) == /\ ~ is_processed(s, message_ids[j])
                    /\ \A h \in 1..(j - 1) : message_ids[h] # message_ids[j]
        F[j \in 0..Len(message_ids)] ==
            IF j = 0 THEN <<>>
            ELSE IF fresh(j) THEN Append(F[j - 1], message_ids[j]) ELSE F[j - 1]
    IN F[Len(message_ids)]

RECURSIVE filter_new_messages(_, _)
\* StateManager.filter_new_messages: [m for m in message_ids if not is_processed(m)]
filter_new_messages(s, message_ids) ==
    IF message_ids = <<>> THEN <<>>
    ELSE IF is_processed(s, Head(message_ids))
         THEN filter_new_messages(s, Tail(message_ids))
         ELSE <<Head(message_ids)>> \o filter_new_messages(s, Tail(message_ids))

\* lst[-k:] on a list: the last k items; the whole list when k = 0 (-0 is 0)
\* or when the list has no more than k items
LastItems(lst, k) ==
    IF k = 0 \/ k >= Len(lst) THEN lst ELSE SubSeq(lst, Len(lst) - k + 1, Len(lst))

\* StateManager.remove_old_entries: the new state and the returned number
remove_old_entries(s, keep_count) ==
    LET current_count == Len(ProcessedIds(s))
    IN IF current_count > keep_count
       THEN [state   |-> [s EXCEPT ![K_ids] =
                             PyList(LastItems(ProcessedIds(s), keep_count))],
             removed |-> current_count - keep_count]
       ELSE [state |-> s, removed |-> 0]

\* StateManager.get_stats raises KeyError when a key is missing
get_stats_raises(s) == ~ ({K_ids, K_ts, K_total} \subseteq DOMAIN s)

\* the lifetime counter, -1 standing for "no counter in the state"
TotalProcessed(s) == IF CanCount(s) THEN s[K_total].num ELSE -1

\* ------------------------------------------------------------- categories
\* config.IMPORTANCE_LEVELS (the table itself is not part of src/config.py)
IMPORTANCE_LEVELS == [c \in {"Banking", "Promotions"} |->
                        IF c = "Banking" THEN 5 ELSE 1]

\* the categories categorize_email can return
Categories == {"Banking", "Promotions", "Other"}

\* categorizer.get_importance: config.IMPORTANCE_LEVELS.get(category, 2)
get_importance(category) ==
    IF category \in DOMAIN IMPORTANCE_LEVELS THEN IMPORTANCE_LEVELS[category] ELSE 2

RECURSIVE InsertByImportance(_, _)
\* insert e behind every entry whose importance is not lower than e's
InsertByImportance(e, sorted) ==
    IF sorted = <<>> THEN <<e>>
    ELSE IF get_importance(Head(sorted).category) >= get_importance(e.category)
         THEN <<Head(sorted)>> \o InsertByImportance(e, Tail(sorted))
         ELSE <<e>> \o sorted

RECURSIVE SortFrom(_, _)
SortFrom(todo, acc) ==
    IF todo = <<>> THEN acc
    ELSE SortFrom(Tail(todo), InsertByImportance(Head(todo), acc))

\* no sort: the work list stays in fetch order
KeepFetchOrder(email_categories) == email_categories

\* a sort that leaves out the entries whose first-pass fetch failed
SortDropsUnfetched(email_categories) ==
    SortFrom(SelectSeq(email_categories, LAMBDA e : e.cached), <<>>)

\* sorted(email_categories, key=lambda x: get_importance(x[1]), reverse=True):
\* a stable sort, entries of equal importance keep their order
SortByImportance(email_categories) == SortFrom(email_categories, <<>>)

\* ------------------------------------------------- text and model replies
\* A Python str is the sequence of its tokens.  A token stands for a word a
\* rule path looks for (an action keyword, a date expression, two urgency
\* keywords, a negative and a positive keyword, an event keyword) or for a
\* word it does not look for ("x").
Words(task) ==
    CASE task = "actions"   -> {"do", "date", "x"}
      [] task = "sentiment" -> {"urgent", "asap", "bad", "good"}
      [] task = "event"     -> {"date", "meet", "x"}
      [] OTHER              -> {"x"}

\* the str 'None' the extractors use as their "nothing found" value
SNone == PyStr(<<"None">>)

PyBool(b) == [kind |-> "bool", items |-> <<>>, num |-> b]

\* bool(v) of a JSON value
Truthy(v) ==
    CASE v.kind = "list" -> v.items # <<>>
      [] v.kind = "str"  -> v.num # <<>>
      [] v.kind = "int"  -> v.num # 0
      [] v.kind = "bool" -> v.num
      [] OTHER           -> FALSE

\* d.get(k, default)
Get(d, k, default) == IF k \in DOMAIN d THEN d[k] ELSE default

\* what a call gives: a value, or the exception it raised
Returns(v) == [res |-> v, exc |-> "none"]
Raises(e)  == [res |-> PyNone, exc |-> e]

\* what the model answers: the call raises, or it returns text, which may be
\* wrapped in ```json fences and is garbage, a JSON array or a JSON object
NoFields == [k \in {} |-> PyNone]
ModelRaises == [kind |-> "raises", fenced |-> FALSE, shape |-> "none", obj |-> NoFields]
ModelText(fenced, shape, obj) ==
    [kind |-> "text", fenced |-> fenced, shape |-> shape, obj |-> obj]

\* the text as returned is valid JSON
IsValidJson(reply) ==
    reply.kind = "text" /\ ~ reply.fenced /\ reply.shape \in {"array", "object"}

\* re.sub(r'```json\s*|\s*```', '', result_text) and json.loads: the fences
\* are gone before parsing
json_loads(reply) ==
    IF reply.shape \in {"garbage", "empty"} THEN Raises("JSONDecodeError")
    ELSE Returns(reply.obj)

\* before any extractor is called
NoCall == [task |-> "none", subject |-> <<>>, content |-> <<>>, mode |-> "off",
           reply |-> ModelRaises, fault |-> FALSE]
NoOutcome == [res |-> PyNone, exc |-> "none", message |-> "waiting"]

\* parsed_email.get('content', '')[:cap]
Cap(content, cap) ==
    IF Len(content) <= cap THEN content ELSE SubSeq(content, 1, cap)

\* f"{subject} {content}"
Combined(subject, content) == subject \o content

\* ------------------------------------------------------------------- state
VARIABLES
    pc,                \* where the running process stands; "idle": none runs
    runs,              \* invocations of main() started so far
    st,                \* StateManager.state of the running process
    file,              \* the durable ledger file, config.STATE_FILE
    tmpf,              \* the temporary file, STATE_FILE + '.tmp'
    saveResult,        \* what the last save_state call returned
    saveFault,         \* the step of the last save_state call that failed
    fileAtSave,        \* the durable file when the last save_state call began
    unread,            \* ids the mail provider holds as unread
    sheet,             \* rows of the delivery store, counted per message id
    all_message_ids,   \* main: ids returned by fetch_unread_message_ids
    new_message_ids,   \* main: ids left by filter_new_messages
    email_categories,  \* main: work list built by the first pass
    sorted_emails,     \* main: work list in processing order
    i,                 \* main: position in sorted_emails (1-based)
    processed_count,   \* main: messages counted as delivered
    failed_count,      \* main: messages counted as failed
    prevRun,           \* history: the invocation of main() before this one
    thisRun,           \* history: this invocation of main(), or the last
    op,                \* SpecLedger: the ledger call made last
    arg,               \* SpecLedger: the id handed to the call, if it was a mark
    flt_in,            \* SpecLedger: the list handed to it, if it was a filter
    flt_out,           \* SpecLedger: the list that filter call returned
    ops,               \* SpecLedger: calls made so far on constructed instances
    marked,            \* SpecLedger: ids handed to mark_as_processed so far
    fromEmpty,         \* SpecLedger: instance began empty, only marks since
    keep_count,        \* the keep_count of the last call, if it was a compaction
    removed,           \* the number that remove_old_entries call returned
    dropped,           \* history: ids compaction has dropped from the durable ledger
    ext_in,            \* SpecExtract: the extractor called, its message, the model's reply
    ext_out,           \* SpecExtract: what the call returned, or that it raised
    events,            \* events the calendar provider holds, counted per message id
    synced             \* SpecLedger: nothing changed since a successful save

extVars    == <<ext_in, ext_out>>
ledgerVars == <<st, file, tmpf, saveResult, saveFault, fileAtSave>>
envVars    == <<unread, sheet>>
runVars    == <<all_message_ids, new_message_ids, email_categories,
                sorted_emails, i, processed_count, failed_count>>
callVars   == <<op, arg, flt_in, flt_out, ops, marked, fromEmpty, synced,
                keep_count, removed, dropped, extVars>>
apiVars    == <<callVars, events>>
histVars   == <<prevRun, thisRun>>
vars       == <<pc, runs, histVars, ledgerVars, envVars, runVars, apiVars>>

\* datetime.now(): later calls never return an earlier time
Now == runs + ops

\* d[k] = v on a dict: replaces the value or adds the key
DictSet(d, k, v) == [x \in DOMAIN d \cup {k} |-> IF x = k THEN v ELSE d[x]]

\* ------------------------------------------------------ StateManager.save_state
\* a save that writes the durable file in place
SaveWriteInPlace(from, mid, ret) ==
    /\ pc = from
    /\ fileAtSave' = file
    /\ st' = DictSet(st, K_ts, PyStr(Now))
    /\ tmpf' = tmpf
    /\ \/ /\ file' = ObjectFile(json_dump(st'))
          /\ pc' = mid
          /\ saveResult' = "none"
          /\ saveFault' = "none"
       \/ /\ file' = BadJsonFile
          /\ pc' = ret
          /\ saveResult' = "False"
          /\ saveFault' = "write"

\* lines 86-93: stamp the state, write it to the temporary file
SaveWriteTmp(from, mid, ret) ==
    /\ pc = from
    /\ fileAtSave' = file
    /\ st' = DictSet(st, K_ts, PyStr(Now))
    /\ file' = file
    /\ \/ /\ tmpf' = ObjectFile(json_dump(st'))
          /\ pc' = mid
          /\ saveResult' = "none"
          /\ saveFault' = "none"
       \/ /\ tmpf' \in {tmpf, BadJsonFile}      \* open failed / write broke off
          /\ pc' = ret
          /\ saveResult' = "False"
          /\ saveFault' = "write"

\* lines 95-103: os.replace(temp_file, self.state_file)
SaveReplace(mid, ret) ==
    /\ pc = mid
    /\ pc' = ret
    /\ UNCHANGED <<st, fileAtSave>>
    /\ \/ /\ file' = tmpf
          /\ tmpf' = NoFile
          /\ saveResult' = "True"
          /\ saveFault' = "none"
       \/ /\ UNCHANGED <<file, tmpf>>
          /\ saveResult' = "False"
          /\ saveFault' = "replace"

\* ------------------------------------------------------------ main(): a run
Min(a, b) == IF a < b THEN a ELSE b

\* the orders in which the provider can list the ids of a set
Listings(S) ==
    {q \in [1..Cardinality(S) -> S] : \A a, b \in DOMAIN q : q[a] = q[b] => a = b}

\* what is remembered of one invocation: the ids listed as unread, the ids
\* the ledger held when it was loaded, the rows appended per id, the ids
\* append_row was called for (in order), whether save_state succeeded, and
\* how the invocation ended; while it runs, the number of save_state calls
\* and of pacing sleeps so far; at its end, what it printed as its summary
NewRun(loaded, how) ==
    [S |-> {}, base |-> loaded, rows |-> [m \in MsgIds |-> 0], attempts |-> <<>>,
     saved |-> FALSE, ended |-> how, saves |-> 0, delays |-> 0, summary |-> "none"]

Log(r) == /\ thisRun' = r
          /\ prevRun' = prevRun

\* the invocation is over: only its outcome and what it printed are remembered
EndedWith(how, printed) ==
    /\ thisRun' = [thisRun EXCEPT !.ended = how, !.attempts = <<>>, !.base = {},
                                  !.saves = 0, !.delays = 0, !.summary = printed]
    /\ prevRun' = prevRun

\* main.py 90-99, 111-120: an early return prints the closing banner alone;
\* an exit or a kill before the summary prints nothing of it
Ended(how) == EndedWith(how, IF how = "early" THEN "banner" ELSE "none")

\* the process is gone: nothing of its memory is left
ProcessEnds ==
    /\ pc' = "idle"
    /\ st' = EmptyState
    /\ all_message_ids' = <<>>
    /\ new_message_ids' = <<>>
    /\ email_categories' = <<>>
    /\ sorted_emails' = <<>>
    /\ i' = 0
    /\ processed_count' = 0
    /\ failed_count' = 0

\* main.py 44-79: authenticate, build the services, StateManager()
StartRun ==
    /\ pc = "idle"
    /\ runs < MaxRuns
    /\ runs' = runs + 1
    /\ prevRun' = thisRun
    /\ UNCHANGED <<file, tmpf, saveResult, saveFault, fileAtSave, envVars, apiVars>>
    /\ UNCHANGED <<all_message_ids, new_message_ids, email_categories,
                   sorted_emails, i, processed_count, failed_count>>
    /\ \/ /\ st' = load_state(file)
          /\ pc' = "fetch_ids"
          /\ thisRun' = NewRun(SeqToSet(ProcessedIds(st')), "running")
       \/ /\ st' = st                      \* authenticate() raises: sys.exit(1)
          /\ pc' = "idle"
          /\ thisRun' = NewRun({}, "exit1")

\* main.py 88-99: list the unread ids; none: early return
FetchUnread ==
    /\ pc = "fetch_ids"
    /\ UNCHANGED <<runs, file, tmpf, saveResult, saveFault, fileAtSave, envVars, apiVars>>
    /\ \/ \E q \in Listings(unread) :
            LET ids == SubSeq(q, 1, Min(Len(q), MAX_RESULTS))
            IN IF ids = <<>>
               THEN /\ ProcessEnds
                    /\ Ended("early")
               ELSE /\ all_message_ids' = ids
                    /\ pc' = "filter"
                    /\ Log([thisRun EXCEPT !.S = SeqToSet(ids)])
                    /\ UNCHANGED <<st, new_message_ids, email_categories,
                                   sorted_emails, i, processed_count, failed_count>>
       \/ /\ ProcessEnds                   \* the list call raises: sys.exit(1)
          /\ Ended("exit1")

\* main.py 109-120: drop the ids of the ledger; none left: early return
FilterNew ==
    /\ pc = "filter"
    /\ UNCHANGED <<runs, file, tmpf, saveResult, saveFault, fileAtSave, envVars, apiVars>>
    /\ LET ids == filter_new_messages(st, all_message_ids)
       IN IF ids = <<>>
          THEN /\ ProcessEnds
               /\ Ended("early")
          ELSE /\ new_message_ids' = ids
               /\ pc' = "categorize"
               /\ UNCHANGED <<st, histVars, all_message_ids, email_categories,
                              sorted_emails, i, processed_count, failed_count>>

\* main.py 133-141: first pass, one message: fetch, parse, categorize
Categorize ==
    /\ pc = "categorize"
    /\ Len(email_categories) < Len(new_message_ids)
    /\ LET msg_id == new_message_ids[Len(email_categories) + 1]
       IN \/ \E c \in Categories :
               email_categories' = Append(email_categories,
                    [id |-> msg_id, category |-> c, cached |-> TRUE])
          \/ email_categories' = Append(email_categories,
                    [id |-> msg_id, category |-> "Other", cached |-> FALSE])
    /\ UNCHANGED <<pc, runs, histVars, ledgerVars, envVars, apiVars>>
    /\ UNCHANGED <<all_message_ids, new_message_ids, sorted_emails, i,
                   processed_count, failed_count>>

\* main.py 144-175: sort the work list, reset the counters
SortEmails ==
    /\ pc = "categorize"
    /\ Len(email_categories) = Len(new_message_ids)
    /\ sorted_emails' = SortByImportance(email_categories)
    /\ i' = 1
    /\ processed_count' = 0
    /\ failed_count' = 0
    /\ pc' = "begin"
    /\ UNCHANGED <<runs, histVars, ledgerVars, envVars, apiVars>>
    /\ UNCHANGED <<all_message_ids, new_message_ids, email_categories>>

\* the message the loop is at
Msg == sorted_emails[i]

\* a loop that saves the ledger after every message
SaveAfterEveryMessage == "save"

\* where the loop goes after message i (main.py 177, 290-291: it sleeps
\* before the next message and leaves the loop after the last)
AfterMessage == IF i < Len(sorted_emails) THEN "begin" ELSE "save"

\* main.py 290-291: if i < len(sorted_emails): time.sleep(4)
Pace == IF i < Len(sorted_emails) THEN 1 ELSE 0

\* main.py 293-296: the handler at the message boundary
MessageFails ==
    /\ failed_count' = failed_count + 1
    /\ i' = i + 1
    /\ pc' = AfterMessage
    /\ UNCHANGED <<processed_count, all_message_ids, new_message_ids,
                   email_categories, sorted_emails>>

\* main.py 179-192: take the cached message or fetch it again
BeginMessage ==
    /\ pc = "begin"
    /\ UNCHANGED <<runs, ledgerVars, envVars, apiVars>>
    /\ \/ /\ pc' = "enrich"
          /\ UNCHANGED <<histVars, runVars>>
       \/ /\ ~ Msg.cached                  \* fetch_message_details raises
          /\ MessageFails
          /\ UNCHANGED histVars

\* main.py 194-275: summary, actions, attachments, sentiment, response,
\* calendar event, row
Enrich ==
    /\ pc = "enrich"
    /\ UNCHANGED <<runs, ledgerVars, envVars, apiVars>>
    /\ \/ /\ pc' = "append"
          /\ UNCHANGED <<histVars, runVars>>
       \/ /\ MessageFails                  \* an extractor raises
          /\ UNCHANGED histVars

\* an append step that marks the ledger whatever append_row returned
AppendRowMarksAnyway ==
    /\ pc = "append"
    /\ UNCHANGED <<runs, file, tmpf, saveResult, saveFault, fileAtSave, unread, apiVars>>
    /\ st' = mark_as_processed(st, Msg.id).state
    /\ \/ /\ sheet' = [sheet EXCEPT ![Msg.id] = @ + 1]
          /\ pc' = "mark"
          /\ Log([thisRun EXCEPT !.rows[Msg.id] = @ + 1,
                                 !.attempts = Append(@, Msg.id)])
          /\ UNCHANGED runVars
       \/ /\ sheet' = sheet
          /\ MessageFails
          /\ Log([thisRun EXCEPT !.attempts = Append(@, Msg.id),
                                 !.delays = @ + Pace])

\* main.py 278-287: sheets.append_row(row) and its failure branch
AppendRow ==
    /\ pc = "append"
    /\ UNCHANGED <<runs, ledgerVars, unread, apiVars>>
    /\ \/ /\ sheet' = [sheet EXCEPT ![Msg.id] = @ + 1]
          /\ pc' = "mark"
          /\ Log([thisRun EXCEPT !.rows[Msg.id] = @ + 1,
                                 !.attempts = Append(@, Msg.id)])
          /\ UNCHANGED runVars
       \/ /\ sheet' = sheet                \* append_row returns False
          /\ MessageFails
          /\ Log([thisRun EXCEPT !.attempts = Append(@, Msg.id),
                                 !.delays = @ + Pace])

\* main.py 281: state.mark_as_processed(message_id)
MarkProcessed ==
    /\ pc = "mark"
    /\ UNCHANGED <<runs, file, tmpf, saveResult, saveFault, fileAtSave, envVars, apiVars>>
    /\ LET r == mark_as_processed(st, Msg.id)
       IN /\ st' = r.state
          /\ IF r.raised
             THEN /\ MessageFails
                  /\ UNCHANGED histVars
             ELSE /\ pc' = "mark_read"
                  /\ UNCHANGED <<histVars, runVars>>

\* main.py 282-291: gmail.mark_as_read(message_id), count, pace
MarkRead ==
    /\ pc = "mark_read"
    /\ \/ unread' = unread \ {Msg.id}
       \/ unread' = unread                 \* mark_as_read returns False
    /\ Log([thisRun EXCEPT !.delays = @ + Pace])
    /\ processed_count' = processed_count + 1
    /\ i' = i + 1
    /\ pc' = AfterMessage
    /\ UNCHANGED <<runs, ledgerVars, sheet, apiVars, failed_count>>
    /\ UNCHANGED <<all_message_ids, new_message_ids, email_categories, sorted_emails>>

\* main.py 305: state.save_state(), first half
SaveStateWrite ==
    /\ SaveWriteTmp("save", "save_replace", "report")
    /\ Log([thisRun EXCEPT !.saves = @ + 1])
    /\ UNCHANGED <<runs, envVars, runVars, apiVars>>

\* main.py 305: state.save_state(), second half
SaveStateReplace ==
    /\ SaveReplace("save_replace", "report")
    /\ Log([thisRun EXCEPT !.saved = (saveResult' = "True")])
    /\ UNCHANGED <<runs, envVars, runVars, apiVars>>

\* main.py 311-357: report, summary, get_stats; the process exits
Report ==
    /\ pc = "report"
    /\ ProcessEnds
    /\ EndedWith(IF get_stats_raises(st) THEN "exit1" ELSE "complete", "counts")
    /\ UNCHANGED <<runs, file, tmpf, saveResult, saveFault, fileAtSave, envVars, apiVars>>

\* the process is killed at any point of a run
Crash ==
    /\ pc # "idle"
    /\ ProcessEnds
    /\ Ended("crash")
    /\ saveFault' = IF pc = "save_replace" THEN "killed" ELSE saveFault
    /\ UNCHANGED <<runs, file, tmpf, saveResult, fileAtSave, envVars, apiVars>>

\* ledger files a first run can find
InitialFiles ==
    {NoFile, BadJsonFile, ObjectFile(<<[key |-> K_ids, val |-> PyList(<<>>)]>>)}

Init ==
    /\ pc = "idle"
    /\ runs = 0
    /\ prevRun = NewRun({}, "none")
    /\ thisRun = NewRun({}, "none")
    /\ st = EmptyState
    /\ file \in InitialFiles
    /\ tmpf = NoFile
    /\ saveResult = "none"
    /\ saveFault = "none"
    /\ fileAtSave = NoFile
    /\ unread = MsgIds
    /\ sheet = [m \in MsgIds |-> 0]
    /\ all_message_ids = <<>>
    /\ new_message_ids = <<>>
    /\ email_categories = <<>>
    /\ sorted_emails = <<>>
    /\ i = 0
    /\ processed_count = 0
    /\ failed_count = 0
    /\ op = "none"
    /\ arg = 0
    /\ flt_in = <<>>
    /\ flt_out = <<>>
    /\ ops = 0
    /\ marked = {}
    /\ fromEmpty = FALSE
    /\ synced = FALSE
    /\ keep_count = 0
    /\ removed = 0
    /\ dropped = {}
    /\ ext_in = NoCall
    /\ ext_out = NoOutcome
    /\ events = [m \in MsgIds |-> 0]

Next ==
    \/ StartRun
    \/ FetchUnread
    \/ FilterNew
    \/ Categorize
    \/ SortEmails
    \/ BeginMessage
    \/ Enrich
    \/ AppendRow
    \/ MarkProcessed
    \/ MarkRead
    \/ SaveStateWrite
    \/ SaveStateReplace
    \/ Report
    \/ Crash

Spec == Init /\ [][Next]_vars

\* ------------------------------------------- the StateManager API on its own
\* ledger files a StateManager can be constructed on
LedgerFiles ==
    LET ids(q) == [key |-> K_ids,   val |-> PyList(q)]
        ts     == [key |-> K_ts,    val |-> PyNone]
        tot(n) == [key |-> K_total, val |-> PyInt(n)]
    IN { NoFile, UnreadableFile, BadJsonFile, NonDictFile,
         ObjectFile(json_dump(EmptyState)),
         ObjectFile(<<ids(<<1>>), ts, tot(1)>>),
         ObjectFile(<<ids(<<2, 1>>), ts, tot(5)>>),
         ObjectFile(<<tot(1), ts, ids(<<2>>)>>),
         ObjectFile(<<ids(<<1>>)>>),
         ObjectFile(<<ids(<<1>>), tot(1)>>),
         ObjectFile(<<ids(<<1>>), ts>>),
         ObjectFile(<<ts, tot(1)>>),
         ObjectFile(<<[key |-> K_ids, val |-> PyInt(3)], ts, tot(1)>>),
         ObjectFile(<<[key |-> K_ids, val |-> PyNone], ts, tot(1)>>) }

\* the lists a caller hands to filter_new_messages (ids may repeat)
IdLists == UNION {[1..n -> MsgIds] : n \in 0..MaxListLen}

InitLedger ==
    /\ pc = "idle"
    /\ runs = 0
    /\ prevRun = NewRun({}, "none")
    /\ thisRun = NewRun({}, "none")
    /\ st = EmptyState
    /\ file \in LedgerFiles
    /\ tmpf = NoFile
    /\ saveResult = "none"
    /\ saveFault = "none"
    /\ fileAtSave = NoFile
    /\ unread = MsgIds
    /\ sheet = [m \in MsgIds |-> 0]
    /\ all_message_ids = <<>>
    /\ new_message_ids = <<>>
    /\ email_categories = <<>>
    /\ sorted_emails = <<>>
    /\ i = 0
    /\ processed_count = 0
    /\ failed_count = 0
    /\ op = "none"
    /\ arg = 0
    /\ flt_in = <<>>
    /\ flt_out = <<>>
    /\ ops = 0
    /\ marked = {}
    /\ fromEmpty = FALSE
    /\ synced = FALSE
    /\ keep_count = 0
    /\ removed = 0
    /\ dropped = {}
    /\ ext_in = NoCall
    /\ ext_out = NoOutcome
    /\ events = [m \in MsgIds |-> 0]

pipeVars == <<runs, histVars, envVars, runVars, extVars, events>>

\* StateManager(): __init__ and load_state
Construct ==
    /\ pc = "idle"
    /\ st' = load_state(file)
    /\ pc' = "ready"
    /\ op' = "load"
    /\ ops' = ops
    /\ marked' = {}
    /\ fromEmpty' = (st' = EmptyState)
    /\ synced' = FALSE
    /\ arg' = 0 /\ flt_in' = <<>> /\ flt_out' = <<>>
    /\ keep_count' = 0 /\ removed' = 0 /\ dropped' = dropped
    /\ UNCHANGED <<file, tmpf, saveResult, saveFault, fileAtSave>>
    /\ UNCHANGED pipeVars

\* state.mark_as_processed(message_id)
Mark ==
    /\ pc = "ready"
    /\ ops < MaxOps
    /\ \E message_id \in MsgIds :
         LET r == mark_as_processed(st, message_id)
         IN /\ st' = r.state
            /\ op' = IF r.raised THEN "mark_raised" ELSE "mark"
            /\ arg' = message_id
            /\ marked' = marked \cup {message_id}
    /\ ops' = ops + 1
    /\ synced' = (synced /\ st' = st)
    /\ flt_in' = <<>> /\ flt_out' = <<>>
    /\ keep_count' = 0 /\ removed' = 0 /\ dropped' = dropped
    /\ UNCHANGED <<pc, file, tmpf, saveResult, saveFault, fileAtSave, fromEmpty>>
    /\ UNCHANGED pipeVars

\* state.filter_new_messages(message_ids)
Filter ==
    /\ pc = "ready"
    /\ ops < MaxOps
    /\ \E message_ids \in IdLists :
         /\ flt_in' = message_ids
         /\ flt_out' = filter_new_messages(st, message_ids)
    /\ op' = "filter"
    /\ ops' = ops + 1
    /\ arg' = 0
    /\ keep_count' = 0 /\ removed' = 0 /\ dropped' = dropped
    /\ UNCHANGED <<pc, ledgerVars, marked, fromEmpty, synced>>
    /\ UNCHANGED pipeVars

\* state.save_state(), first half
SaveWrite ==
    /\ ops < MaxOps
    /\ SaveWriteTmp("ready", "l_save_replace", "ready")
    /\ op' = "save"
    /\ ops' = ops + 1
    /\ synced' = FALSE
    /\ arg' = 0 /\ flt_in' = <<>> /\ flt_out' = <<>>
    /\ keep_count' = 0 /\ removed' = 0 /\ dropped' = dropped
    /\ UNCHANGED <<marked, fromEmpty>>
    /\ UNCHANGED pipeVars

\* state.save_state(), second half
SaveFinish ==
    /\ SaveReplace("l_save_replace", "ready")
    /\ synced' = (saveResult' = "True")
    /\ UNCHANGED <<op, ops, arg, flt_in, flt_out, marked, fromEmpty, keep_count, removed, dropped>>
    /\ UNCHANGED pipeVars

\* the process holding the instance is killed
Interrupt ==
    /\ pc \in {"ready", "l_save_replace"}
    /\ pc' = "idle"
    /\ st' = EmptyState
    /\ op' = "kill"
    /\ saveFault' = IF pc = "l_save_replace" THEN "killed" ELSE saveFault
    /\ synced' = FALSE
    /\ fromEmpty' = FALSE
    /\ marked' = {}
    /\ arg' = 0 /\ flt_in' = <<>> /\ flt_out' = <<>>
    /\ keep_count' = 0 /\ removed' = 0 /\ dropped' = dropped
    /\ UNCHANGED <<file, tmpf, saveResult, fileAtSave, ops>>
    /\ UNCHANGED pipeVars

NextLedger ==
    \/ Construct
    \/ Mark
    \/ Filter
    \/ SaveWrite
    \/ SaveFinish
    \/ Interrupt

SpecLedger == InitLedger /\ [][NextLedger]_vars

\* --------------------------------------------------------- action extractor
\* '; '.join(strs) for a list of str
RECURSIVE JoinStrs(_)
JoinStrs(strs) ==
    IF strs = <<>> THEN <<>>
    ELSE IF Len(strs) = 1 THEN Head(strs)
    ELSE Head(strs) \o <<";">> \o JoinStrs(Tail(strs))

\* ActionExtractor._extract_with_rules: the sentences that hold an action
\* keyword (one token each), at most three, joined; the first date found
ActionRules(subject, content, fault) ==
    IF fault THEN Raises("Exception")
    ELSE LET combined == Combined(subject, content)
             actions  == SelectSeq(combined, LAMBDA t : t = "do")
             first3   == IF Len(actions) > 3 THEN SubSeq(actions, 1, 3) ELSE actions
         IN Returns([actions  |-> IF first3 = <<>> THEN SNone
                                  ELSE PyStr(JoinStrs([j \in 1..Len(first3) |-> <<first3[j]>>])),
                     due_date |-> IF \E j \in 1..Len(combined) : combined[j] = "date"
                                  THEN PyStr(<<"date">>) ELSE SNone])

\* '; '.join(x) can be taken of a str (of its characters) and of a list of str
CanJoin(v) ==
    \/ v.kind = "str"
    \/ v.kind = "list" /\ \A j \in 1..Len(v.items) : v.items[j].kind = "str"

\* '; '.join(x): a str gives its characters, a list its items
Join(v) ==
    IF v.kind = "str"
    THEN JoinStrs([j \in 1..Len(v.num) |-> <<v.num[j]>>])
    ELSE JoinStrs([j \in 1..Len(v.items) |-> v.items[j].num])

\* x[0] can be taken of a str and of a list
CanIndex(v) == v.kind \in {"str", "list"}
First(v) == IF v.kind = "str" THEN PyStr(<<v.num[1]>>) ELSE v.items[1]

\* a model path that answers unparsable text with the "nothing found" result
ActionLlmDefaults(subject, content, reply, fault) ==
    IF reply.kind = "raises" THEN Raises("Exception")
    ELSE Returns([actions |-> SNone, due_date |-> SNone])

\* ActionExtractor._extract_with_llm
ActionLlm(subject, content, reply, fault) ==
    IF reply.kind = "raises" THEN Raises("Exception")
    ELSE LET parsed == json_loads(reply)
         IN IF parsed.exc # "none" THEN ActionRules(subject, content, fault)
            ELSE IF reply.shape # "object" THEN Raises("AttributeError")
            ELSE LET actions   == Get(parsed.res, "actions", PyList(<<>>))
                     deadlines == Get(parsed.res, "deadlines", PyList(<<>>))
                 IN IF Truthy(actions) /\ ~ CanJoin(actions) THEN Raises("TypeError")
                    ELSE IF Truthy(deadlines) /\ ~ CanIndex(deadlines)
                         THEN Raises("TypeError")
                    ELSE Returns(
                      [actions  |-> IF Truthy(actions) THEN PyStr(Join(actions)) ELSE SNone,
                       due_date |-> IF Truthy(deadlines) /\ First(deadlines) # SNone
                                    THEN First(deadlines) ELSE SNone])

\* ActionExtractor.extract; mode: the feature is off, the model is not in
\* use, or the model is tried first
ActionExtract(subject, content, mode, reply, fault) ==
    IF mode = "off"
    THEN Returns([actions |-> SNone, due_date |-> SNone])
    ELSE LET capped == Cap(content, ContentCap)
             llm    == ActionLlm(subject, capped, reply, fault)
         IN IF mode = "llm" /\ llm.exc = "none" THEN llm
            ELSE ActionRules(subject, capped, fault)

\* ------------------------------------------------------- sentiment analyzer
Has(text, word) == \E j \in 1..Len(text) : text[j] = word

\* the number of the listed keywords that occur in the text
CountOf(text, keywords) == Cardinality({w \in keywords : Has(text, w)})

\* a sentiment result; the urgency score is kept in hundredths
Sentiment(label, score) == [sentiment |-> PyStr(<<label>>), urgency_score |-> PyInt(score)]

\* min(1.0, urgency_score + boost), in hundredths
Boost(score, boost) == IF score + boost > 100 THEN 100 ELSE score + boost

\* a decision that looks at the negative keywords before the urgent ones
DecideNegativeFirst(urgency_count, negative_count, positive_count) ==
    IF negative_count > positive_count THEN Sentiment("negative", 60)
    ELSE IF urgency_count >= 2 THEN Sentiment("urgent", 90)
    ELSE IF positive_count > negative_count THEN Sentiment("positive", 30)
    ELSE Sentiment("neutral", 50)

\* the label and the base score from the three keyword counts
Decide(urgency_count, negative_count, positive_count) ==
    IF urgency_count >= 2 THEN Sentiment("urgent", 90)
    ELSE IF negative_count > positive_count THEN Sentiment("negative", 60)
    ELSE IF positive_count > negative_count THEN Sentiment("positive", 30)
    ELSE Sentiment("neutral", 50)

\* SentimentAnalyzer._analyze_with_rules; the words "!" and "!!" are one and
\* two exclamation marks
SentimentRules(subject, content, fault) ==
    IF fault THEN Raises("Exception")
    ELSE LET combined_text  == Combined(subject, content)
             urgency_count  == CountOf(combined_text, {"urgent", "asap"})
             negative_count == CountOf(combined_text, {"bad"})
             positive_count == CountOf(combined_text, {"good"})
             decided        == Decide(urgency_count, negative_count, positive_count)
             exclaimed      == IF Has(subject, "!") \/ Has(combined_text, "!!")
                               THEN Boost(decided.urgency_score.num, 20)
                               ELSE decided.urgency_score.num
             pressed        == IF Has(combined_text, "by tomorrow")
                                  \/ Has(combined_text, "by today")
                               THEN Boost(exclaimed, 30)
                               ELSE exclaimed
         IN Returns([sentiment |-> decided.sentiment, urgency_score |-> PyInt(pressed)])

valid_sentiments == {"positive", "negative", "neutral", "urgent"}

\* str.lower() of a label
Lower(label) == IF label = <<"URGENT">> THEN <<"urgent">> ELSE label

\* float(x) is defined for numbers and for strings that spell one
IsNumeral(str) == str = <<"0.7">>
FloatOf(v) == IF v.kind = "str" THEN 70 ELSE IF v.kind = "bool" THEN 100 ELSE v.num

Clamp(x) == IF x < 0 THEN 0 ELSE IF x > 100 THEN 100 ELSE x

\* SentimentAnalyzer._analyze_with_llm
SentimentLlm(subject, content, reply, fault) ==
    IF reply.kind = "raises" THEN Raises("Exception")
    ELSE LET parsed == json_loads(reply)
         IN IF parsed.exc # "none" THEN SentimentRules(subject, content, fault)
            ELSE IF reply.shape # "object" THEN Raises("AttributeError")
            ELSE LET sentiment == Get(parsed.res, "sentiment", PyStr(<<"neutral">>))
                     urgency   == Get(parsed.res, "urgency_score", PyInt(50))
                 IN IF sentiment.kind # "str" THEN Raises("AttributeError")
                    ELSE IF urgency.kind \in {"null", "list"} THEN Raises("TypeError")
                    ELSE IF urgency.kind = "str" /\ ~ IsNumeral(urgency.num)
                         THEN SentimentRules(subject, content, fault)
                    ELSE Returns(
                      [sentiment     |-> IF \E l \in valid_sentiments : Lower(sentiment.num) = <<l>>
                                         THEN PyStr(Lower(sentiment.num))
                                         ELSE PyStr(<<"neutral">>),
                       urgency_score |-> PyInt(Clamp(FloatOf(urgency)))])

\* SentimentAnalyzer.analyze
SentimentAnalyze(subject, content, mode, reply, fault) ==
    IF mode = "off"
    THEN Returns(Sentiment("neutral", 50))
    ELSE LET capped == Cap(content, ContentCap)
             llm    == SentimentLlm(subject, capped, reply, fault)
         IN IF mode = "llm" /\ llm.exc = "none" THEN llm
            ELSE SentimentRules(subject, capped, fault)

\* ------------------------------------------------- calendar event extractor
\* an event; duration, location and description are left out
Event(title, date) == [title |-> title, date |-> date, time |-> PyStr(<<"09:00">>)]

\* CalendarService._extract_with_rules
EventRules(subject, content, fault) ==
    IF fault THEN Raises("Exception")
    ELSE LET combined == Combined(subject, content)
         IN IF ~ Has(combined, "date") THEN Returns(PyNone)
            ELSE Returns(Event(IF Has(combined, "meet")
                               THEN PyStr(<<"Meeting:">> \o subject) ELSE PyStr(subject),
                               PyStr(<<"date">>)))

\* CalendarService._extract_with_llm
EventLlm(subject, content, reply, fault) ==
    IF reply.kind = "raises" THEN Raises("Exception")
    ELSE LET parsed == json_loads(reply)
         IN IF parsed.exc # "none" THEN EventRules(subject, content, fault)
            ELSE IF reply.shape # "object" THEN Raises("AttributeError")
            ELSE LET has_event == Get(parsed.res, "has_event", PyBool(FALSE))
                     date      == Get(parsed.res, "event_date", PyNone)
                     title     == Get(parsed.res, "event_title", PyStr(subject))
                 IN IF ~ Truthy(has_event) THEN Returns(PyNone)
                    ELSE IF ~ Truthy(date) THEN Returns(PyNone)
                    ELSE IF date.kind # "str" THEN Raises("TypeError")
                    ELSE IF date.num # <<"date">> THEN EventRules(subject, content, fault)
                    ELSE Returns(Event(title, date))

\* CalendarService.extract_event_details; should_create_event has said yes
\* unless the feature is off
EventExtract(subject, content, mode, reply, fault) ==
    IF mode = "off"
    THEN Returns(PyNone)
    ELSE LET capped == Cap(content, ContentCap)
             llm    == EventLlm(subject, capped, reply, fault)
         IN IF mode = "llm" /\ llm.exc = "none" THEN llm
            ELSE EventRules(subject, capped, fault)

\* ---------------------------------------------------------------- summarizer
\* EmailSummarizer._fallback_summary
FallbackSummary(subject, fault) ==
    IF fault THEN Raises("Exception")
    ELSE Returns(PyStr(<<"Email from sender:">> \o subject))

\* EmailSummarizer.summarize_email: the model's text is the summary, whatever
\* it is
SummarizeEmail(subject, content, mode, reply, fault) ==
    IF mode # "llm" \/ reply.kind = "raises"
    THEN FallbackSummary(subject, fault)
    ELSE IF reply.shape = "empty" THEN Returns(PyStr(<<>>))
    ELSE Returns(PyStr(<<IF reply.fenced THEN "fenced" ELSE "plain", reply.shape>>))

\* ------------------------------------------------ compaction of the ledger
\* state.remove_old_entries(keep_count)
RemoveOld ==
    /\ pc = "ready"
    /\ ops < MaxOps
    /\ \E k \in 0..MaxKeep :
         LET r == remove_old_entries(st, k)
         IN /\ st' = r.state
            /\ removed' = r.removed
            /\ keep_count' = k
    /\ op' = "remove_old"
    /\ ops' = ops + 1
    /\ synced' = (synced /\ st' = st)
    /\ fromEmpty' = FALSE
    /\ arg' = 0 /\ flt_in' = <<>> /\ flt_out' = <<>>
    /\ UNCHANGED <<pc, file, tmpf, saveResult, saveFault, fileAtSave, marked, dropped>>
    /\ UNCHANGED pipeVars

NextCompaction ==
    \/ Construct
    \/ Mark
    \/ RemoveOld
    \/ Interrupt

\* the StateManager API with compaction: construct, mark, remove_old_entries
SpecCompaction == InitLedger /\ [][NextCompaction]_vars

\* between two runs: StateManager(), remove_old_entries(keep_count), save_state()
CompactLedger ==
    /\ pc = "idle"
    /\ runs < MaxRuns
    /\ thisRun.ended \in {"complete", "early"}
    /\ \E k \in 0..MaxKeep :
         LET loaded  == load_state(file)
             r       == remove_old_entries(loaded, k)
             stamped == DictSet(r.state, K_ts, PyStr(Now))
         IN /\ r.removed > 0
            /\ keep_count' = k
            /\ removed' = r.removed
            /\ \/ /\ file' = ObjectFile(json_dump(stamped))
                  /\ dropped' = dropped \cup
                        (SeqToSet(ProcessedIds(loaded)) \ SeqToSet(ProcessedIds(stamped)))
               \/ /\ file' = file             \* save_state returns False
                  /\ dropped' = dropped
    /\ UNCHANGED <<pc, st, tmpf, saveResult, saveFault, fileAtSave>>
    /\ UNCHANGED <<op, arg, flt_in, flt_out, ops, marked, fromEmpty, synced>>
    /\ UNCHANGED pipeVars

NextMaintained ==
    \/ StartRun
    \/ FetchUnread
    \/ FilterNew
    \/ Categorize
    \/ SortEmails
    \/ BeginMessage
    \/ Enrich
    \/ AppendRow
    \/ MarkProcessed
    \/ MarkRead
    \/ SaveStateWrite
    \/ SaveStateReplace
    \/ Report
    \/ Crash
    \/ CompactLedger

\* the pipeline with the ledger compacted between runs, from a first run
\* that finds no ledger file
InitMaintained ==
    /\ Init
    /\ file = NoFile

SpecMaintained == InitMaintained /\ [][NextMaintained]_vars

\* ------------------------------------------------- the extractors, one call
\* a JSON object: each field is absent or has one of the given values
Objects2(k1, vs1, k2, vs2) ==
    {NoFields} \cup {DictSet(NoFields, k1, v) : v \in vs1}
               \cup {DictSet(NoFields, k2, v) : v \in vs2}
               \cup {DictSet(DictSet(NoFields, k1, v), k2, w) : v \in vs1, w \in vs2}

ActionObjects ==
    Objects2("actions",
             {PyList(<<>>), PyList(<<PyStr(<<"call">>)>>),
              PyList(<<PyStr(<<"call">>), PyStr(<<"pay">>)>>),
              PyList(<<PyInt(5)>>), PyStr(<<"c", "a">>), PyInt(5)},
             "deadlines",
             {PyList(<<PyStr(<<"date">>)>>), PyList(<<SNone>>), PyList(<<PyInt(5)>>),
              PyStr(<<"d", "a">>), PyInt(5)})

SentimentObjects ==
    Objects2("sentiment",
             {PyStr(<<"positive">>), PyStr(<<"URGENT">>), PyStr(<<"angry">>),
              PyInt(1), PyNone},
             "urgency_score",
             {PyInt(70), PyInt(150), PyInt(-20), PyStr(<<"high">>), PyStr(<<"0.7">>),
              PyNone})

EventObjects ==
    LET dated == Objects2("event_date",
                          {PyStr(<<"date">>), PyStr(<<"soon">>), PyInt(5), PyNone},
                          "event_title",
                          {PyStr(<<"standup">>), PyInt(7)})
    IN dated \cup {DictSet(o, "has_event", PyBool(b)) : o \in dated, b \in BOOLEAN}

Objects(task) ==
    CASE task = "actions"   -> ActionObjects
      [] task = "sentiment" -> SentimentObjects
      [] task = "event"     -> EventObjects
      [] OTHER              -> {NoFields}

Replies(task) ==
    {ModelRaises}
      \cup {ModelText(f, sh, NoFields) : f \in BOOLEAN, sh \in {"garbage", "array"}}
      \cup {ModelText(f, "object", o) : f \in BOOLEAN, o \in Objects(task)}

Subjects(task) == {<<w>> : w \in Words(task)}
Contents(task) == UNION {[1..n -> Words(task)] : n \in 0..MaxContentLen}

Tasks == {"summary", "actions", "sentiment", "event"}

Modes == {"off", "rules", "llm"}

\* the rule path of a two-path extractor, called directly
RulePath(task, subject, content, fault) ==
    CASE task = "actions"   -> ActionRules(subject, content, fault)
      [] task = "sentiment" -> SentimentRules(subject, content, fault)
      [] OTHER              -> EventRules(subject, content, fault)

\* the extractor calls of the message loop are not guarded one by one: what
\* leaves an extractor reaches the message's handler and fails the message
Handled(r) ==
    [res |-> r.res, exc |-> r.exc,
     message |-> IF r.exc = "none" THEN "continues" ELSE "failed"]

InitExtract ==
    /\ pc = "idle"
    /\ runs = 0
    /\ prevRun = NewRun({}, "none")
    /\ thisRun = NewRun({}, "none")
    /\ st = EmptyState
    /\ file = NoFile
    /\ tmpf = NoFile
    /\ saveResult = "none"
    /\ saveFault = "none"
    /\ fileAtSave = NoFile
    /\ unread = MsgIds
    /\ sheet = [m \in MsgIds |-> 0]
    /\ all_message_ids = <<>>
    /\ new_message_ids = <<>>
    /\ email_categories = <<>>
    /\ sorted_emails = <<>>
    /\ i = 0
    /\ processed_count = 0
    /\ failed_count = 0
    /\ op = "none"
    /\ arg = 0
    /\ flt_in = <<>>
    /\ flt_out = <<>>
    /\ ops = 0
    /\ marked = {}
    /\ fromEmpty = FALSE
    /\ synced = FALSE
    /\ keep_count = 0
    /\ removed = 0
    /\ dropped = {}
    /\ \E t \in Tasks :
         \E s \in Subjects(t), c \in Contents(t), m \in Modes, r \in Replies(t),
            f \in BOOLEAN :
           ext_in = [task |-> t, subject |-> s, content |-> c, mode |-> m,
                     reply |-> r, fault |-> f]
    /\ ext_out = NoOutcome
    /\ events = [m \in MsgIds |-> 0]

\* the part of the state no extractor call touches
restVars == <<pc, runs, histVars, ledgerVars, envVars, runVars, op, arg, flt_in,
              flt_out, ops, marked, fromEmpty, synced, keep_count, removed, dropped,
              events>>

\* summary = summarizer.summarize_email(parsed_email)
Summarize ==
    /\ ext_in.task = "summary"
    /\ ext_out = NoOutcome
    /\ ext_out' = Handled(SummarizeEmail(ext_in.subject, ext_in.content, ext_in.mode,
                                         ext_in.reply, ext_in.fault))
    /\ UNCHANGED <<ext_in, restVars>>

\* action_data = action_extractor.extract(parsed_email)
ExtractActions ==
    /\ ext_in.task = "actions"
    /\ ext_out = NoOutcome
    /\ ext_out' = Handled(ActionExtract(ext_in.subject, ext_in.content, ext_in.mode,
                                        ext_in.reply, ext_in.fault))
    /\ UNCHANGED <<ext_in, restVars>>

\* sentiment_data = sentiment_analyzer.analyze(parsed_email)
AnalyzeSentiment ==
    /\ ext_in.task = "sentiment"
    /\ ext_out = NoOutcome
    /\ ext_out' = Handled(SentimentAnalyze(ext_in.subject, ext_in.content, ext_in.mode,
                                           ext_in.reply, ext_in.fault))
    /\ UNCHANGED <<ext_in, restVars>>

\* event_details = calendar_service.extract_event_details(parsed_email)
ExtractEventDetails ==
    /\ ext_in.task = "event"
    /\ ext_out = NoOutcome
    /\ ext_out' = Handled(EventExtract(ext_in.subject, ext_in.content, ext_in.mode,
                                       ext_in.reply, ext_in.fault))
    /\ UNCHANGED <<ext_in, restVars>>

NextExtract ==
    \/ Summarize
    \/ ExtractActions
    \/ AnalyzeSentiment
    \/ ExtractEventDetails

\* one extractor applied to one message and one answer of the model
SpecExtract == InitExtract /\ [][NextExtract]_vars

\* ------------------------------------------- a listing that repeats an id
\* what the provider can list when an id may come more than once
ListingsWithRepeats(S) ==
    IF S = {} THEN {<<>>} ELSE [1..NumMsgs -> S]

\* main.py 88-99 with such a listing
FetchUnreadRepeats ==
    /\ pc = "fetch_ids"
    /\ UNCHANGED <<runs, file, tmpf, saveResult, saveFault, fileAtSave, envVars, apiVars>>
    /\ \/ \E q \in ListingsWithRepeats(unread) :
            LET ids == SubSeq(q, 1, Min(Len(q), MAX_RESULTS))
            IN IF ids = <<>>
               THEN /\ ProcessEnds
                    /\ Ended("early")
               ELSE /\ all_message_ids' = ids
                    /\ pc' = "filter"
                    /\ Log([thisRun EXCEPT !.S = SeqToSet(ids)])
                    /\ UNCHANGED <<st, new_message_ids, email_categories,
                                   sorted_emails, i, processed_count, failed_count>>
       \/ /\ ProcessEnds                   \* the list call raises: sys.exit(1)
          /\ Ended("exit1")

NextRepeats ==
    \/ StartRun
    \/ FetchUnreadRepeats
    \/ FilterNew
    \/ Categorize
    \/ SortEmails
    \/ BeginMessage
    \/ Enrich
    \/ AppendRow
    \/ MarkProcessed
    \/ MarkRead
    \/ SaveStateWrite
    \/ SaveStateReplace
    \/ Report
    \/ Crash

\* the pipeline when the provider's listing may repeat an id, from a first
\* run that finds no ledger file
SpecRepeats == InitMaintained /\ [][NextRepeats]_vars

\* ------------------------------------------ calendar integration switched on
\* calendar_service.py 305-314: events().insert(...).execute() succeeded
EventInserted ==
    events' = [events EXCEPT ![Msg.id] = @ + 1]

\* main.py 194-275 when calendar integration is enabled and not a dry run
EnrichCalendar ==
    /\ pc = "enrich"
    /\ UNCHANGED <<runs, ledgerVars, envVars, callVars>>
    /\ \/ /\ MessageFails                  \* 198-238: an extractor raises
          /\ UNCHANGED <<histVars, events>>
       \/ /\ pc' = "append"                \* 245-251: no event, or 'Failed'
          /\ UNCHANGED <<histVars, runVars, events>>
       \/ /\ EventInserted                 \* 250: create_event returned a link
          /\ pc' = "append"
          /\ UNCHANGED <<histVars, runVars>>
       \/ /\ EventInserted                 \* 250, then 253 raises: the title
          /\ MessageFails                  \* the model gave is not a string
          /\ UNCHANGED histVars

NextCalendar ==
    \/ StartRun
    \/ FetchUnread
    \/ FilterNew
    \/ Categorize
    \/ SortEmails
    \/ BeginMessage
    \/ EnrichCalendar
    \/ AppendRow
    \/ MarkProcessed
    \/ MarkRead
    \/ SaveStateWrite
    \/ SaveStateReplace
    \/ Report
    \/ Crash

\* the pipeline with calendar integration live, from a first run that finds
\* no ledger file
SpecCalendar == InitMaintained /\ [][NextCalendar]_vars

\* ---------------------------------------------------- the row of one message
\* a Gmail message as parse_email sees it: the Date header is there or not,
\* the Subject header is missing, empty or has text, the body is empty or not
RawMessages ==
    {[has_date |-> d, subject |-> sj, body |-> b] :
        d \in BOOLEAN, sj \in {"absent", "empty", "text"}, b \in {<<>>, <<"x">>}}

\* email_parser.parse_email: headers.get with its defaults
parse_email(message) ==
    [message_id |-> PyStr(<<"id">>),
     from       |-> PyStr(<<"sender">>),
     subject    |-> CASE message.subject = "absent" -> PyStr(<<"(No Subject)">>)
                      [] message.subject = "empty"  -> PyStr(<<>>)
                      [] OTHER                      -> PyStr(<<"do">>),
     date       |-> IF message.has_date THEN PyStr(<<"2026-01-24T10:30:45">>)
                    ELSE PyStr(<<>>),
     content    |-> PyStr(message.body)]

\* str(x)
Str(v) == IF v.kind = "str" THEN v ELSE PyStr(<<ToString(v.num)>>)

\* what the model may answer to the three prompts of one message
SummaryReplies ==
    {ModelRaises, ModelText(FALSE, "empty", NoFields), ModelText(FALSE, "garbage", NoFields)}
ActionRowReplies ==
    {ModelRaises, ModelText(FALSE, "garbage", NoFields)}
      \cup {ModelText(FALSE, "object", o) :
              o \in Objects2("actions", {PyList(<<PyStr(<<"call">>)>>), PyList(<<PyStr(<<>>)>>)},
                             "deadlines", {PyList(<<PyStr(<<"date">>)>>), PyList(<<PyNone>>)})}
SentimentRowReplies ==
    {ModelRaises,
     ModelText(FALSE, "object", DictSet(NoFields, "sentiment", PyStr(<<"angry">>))),
     ModelText(FALSE, "object", DictSet(NoFields, "urgency_score", PyInt(150)))}

\* main, lines 194-275, for a message without attachments that calls for no
\* auto-response and no calendar event: the four results and the row; an
\* exception that leaves an extractor leaves no row
BuildRowOf(message, mode, replies) ==
    LET parsed    == parse_email(message)
        summary   == SummarizeEmail(parsed.subject.num, parsed.content.num, mode,
                                    replies.summary, FALSE)
        actions   == ActionExtract(parsed.subject.num, parsed.content.num, mode,
                                   replies.actions, FALSE)
        sentiment == SentimentAnalyze(parsed.subject.num, parsed.content.num, mode,
                                      replies.sentiment, FALSE)
    IN IF summary.exc # "none" THEN summary
       ELSE IF actions.exc # "none" THEN actions
       ELSE IF sentiment.exc # "none" THEN sentiment
       ELSE Returns(<<parsed.message_id, parsed.from, parsed.subject, parsed.date,
                      PyStr(<<"Other">>), Str(PyInt(3)), summary.res, parsed.content,
                      actions.res.actions, actions.res.due_date,
                      PyStr(<<"No">>), PyStr(<<"None">>), Str(PyInt(0)), PyStr(<<"None">>),
                      sentiment.res.sentiment, Str(sentiment.res.urgency_score),
                      PyStr(<<"No">>), PyStr(<<"None">>), PyStr(<<"No">>)>>)

InitRow ==
    /\ InitMaintained
    /\ ext_out = NoOutcome

\* the message loop up to the row handed to sheets.append_row
BuildRow ==
    /\ ext_out = NoOutcome
    /\ \E message \in RawMessages, mode \in {"rules", "llm"}, rs \in SummaryReplies,
          ra \in ActionRowReplies, rt \in SentimentRowReplies :
         LET replies == [summary |-> rs, actions |-> ra, sentiment |-> rt]
         IN /\ ext_in' = [task |-> "row", message |-> message, mode |-> mode,
                          replies |-> replies]
            /\ ext_out' = Handled(BuildRowOf(message, mode, replies))
    /\ UNCHANGED restVars

NextRow == BuildRow

\* one message taken from its raw form to its row
SpecRow == InitRow /\ [][NextRow]_vars

\* ---------------------------------------------------------------- categorizer
\* str.lower() of a word
LowerWord(w) == IF w \in {"JOB", "Job"} THEN "job" ELSE w
LowerText(text) == [j \in 1..Len(text) |-> LowerWord(text[j])]

\* the names of the rule table's categories, in declaration order
CategoryNames == <<"Banking", "Internship", "Work">>

\* the rule tables: for each category, in order, its sender patterns and its
\* keywords
RuleSets == SUBSET {"bank", "Job"}
RuleTables ==
    UNION {[1..n -> [senders : RuleSets, keywords : RuleSets]] : n \in 1..MaxRules}

\* any(pattern.lower() in text for pattern in patterns)
AnyIn(patterns, text) == \E pt \in patterns : Has(text, LowerWord(pt))

\* a loop that looks at every category's sender patterns before any keyword
RECURSIVE SendersFirst(_, _, _, _)
SendersFirst(rules, j, sender, searchable_text) ==
    IF \E k \in j..Len(rules) : AnyIn(rules[k].senders, sender)
    THEN CategoryNames[CHOOSE k \in j..Len(rules) :
                          /\ AnyIn(rules[k].senders, sender)
                          /\ \A l \in j..(k - 1) : ~ AnyIn(rules[l].senders, sender)]
    ELSE IF j > Len(rules) THEN "Other"
    ELSE IF AnyIn(rules[j].keywords, searchable_text) THEN CategoryNames[j]
    ELSE SendersFirst(rules, j + 1, sender, searchable_text)

\* the loop of categorize_email from the j-th category on
RECURSIVE CategorizeFrom(_, _, _, _)
CategorizeFrom(rules, j, sender, searchable_text) ==
    IF j > Len(rules) THEN "Other"
    ELSE IF AnyIn(rules[j].senders, sender) THEN CategoryNames[j]
    ELSE IF AnyIn(rules[j].keywords, searchable_text) THEN CategoryNames[j]
    ELSE CategorizeFrom(rules, j + 1, sender, searchable_text)

\* categorizer.categorize_email
categorize_email(rules, parsed_email) ==
    LET sender  == LowerText(parsed_email.from)
        subject == LowerText(parsed_email.subject)
        content == LowerText(parsed_email.content)
    IN CategorizeFrom(rules, 1, sender, subject \o content \o sender)

MailWords == {"bank", "JOB", "x"}

InitCategorize ==
    /\ InitMaintained
    /\ ext_out = NoOutcome

\* category = categorize_email(parsed)
CategorizeEmail ==
    /\ ext_out = NoOutcome
    /\ \E rules \in RuleTables, f \in MailWords, sj \in MailWords, c \in MailWords :
         LET parsed == [from |-> <<f>>, subject |-> <<sj>>, content |-> <<c>>]
         IN /\ ext_in' = [task |-> "categorize", rules |-> rules, parsed |-> parsed]
            /\ ext_out' = Handled(Returns(PyStr(<<categorize_email(rules, parsed)>>)))
    /\ UNCHANGED restVars

NextCategorize == CategorizeEmail

\* categorize_email applied to one message under one rule table
SpecCategorize == InitCategorize /\ [][NextCategorize]_vars

\* -------------------------------------------------------------- the calendar
\* a date is a record of year, month and day, in 2026 or later
Date(y, m, d) == [y |-> y, m |-> m, d |-> d]

IsLeap(y) == (y % 4 = 0 /\ y % 100 # 0) \/ y % 400 = 0

DaysIn(y, m) ==
    IF m = 2 THEN (IF IsLeap(y) THEN 29 ELSE 28)
    ELSE IF m \in {4, 6, 9, 11} THEN 30 ELSE 31

DaysInYear(y) == IF IsLeap(y) THEN 366 ELSE 365

RECURSIVE DaysBeforeMonth(_, _)
DaysBeforeMonth(y, m) ==
    IF m = 1 THEN 0 ELSE DaysBeforeMonth(y, m - 1) + DaysIn(y, m - 1)

RECURSIVE DaysBeforeYear(_)
DaysBeforeYear(y) ==
    IF y = 2026 THEN 0 ELSE DaysBeforeYear(y - 1) + DaysInYear(y - 1)

\* the number of days from 2026-01-01 to the date
Ordinal(date) == DaysBeforeYear(date.y) + DaysBeforeMonth(date.y, date.m) + date.d - 1

RECURSIVE FromOrdinalIn(_, _, _)
FromOrdinalIn(y, m, n) ==
    IF n >= DaysInYear(y) /\ m = 1 THEN FromOrdinalIn(y + 1, 1, n - DaysInYear(y))
    ELSE IF n >= DaysIn(y, m) THEN FromOrdinalIn(y, m + 1, n - DaysIn(y, m))
    ELSE Date(y, m, n + 1)

\* date + timedelta(days=n)
AddDays(date, n) == FromOrdinalIn(2026, 1, Ordinal(date) + n)

\* date.weekday(): Monday is 0; 2026-01-01 is a Thursday
Weekday(date) == (Ordinal(date) + 3) % 7

Pad2(n) == IF n < 10 THEN "0" \o ToString(n) ELSE ToString(n)

\* date.strftime('%Y-%m-%d')
Strftime(date) == PyStr(<<ToString(date.y), "-", Pad2(date.m), "-", Pad2(date.d)>>)

\* ------------------------------------------------------- the date resolvers
\* A text is a sequence of date expressions and other words.  What each of
\* the three date regexes finds in an expression, and what the list of
\* strptime formats makes of what was found: nothing found ("no"), found but
\* no format parses it ("bad"), or a date.
NoMatch == [found |-> "no", date |-> Date(2026, 1, 1)]
BadMatch == [found |-> "bad", date |-> Date(2026, 1, 1)]
Parsed(date) == [found |-> "date", date |-> date]

\* date_patterns[p] and _parse_date_string on one expression; the month-day
\* regex also finds "apr 20" inside "5 apr 2026"
MatchOf(p, word) ==
    CASE p = 1 /\ word = "02/05/2026"    -> Parsed(Date(2026, 2, 5))
      [] p = 1 /\ word = "99/99/2026"    -> BadMatch
      [] p = 2 /\ word = "mar 3, 2026"   -> Parsed(Date(2026, 3, 3))
      [] p = 2 /\ word = "feb 5th, 2026" -> BadMatch
      [] p = 2 /\ word = "5 apr 2026"    -> BadMatch
      [] p = 3 /\ word = "5 apr 2026"    -> Parsed(Date(2026, 4, 5))
      [] OTHER                            -> NoMatch

\* re.findall(pattern, text)[0]: the first match in the text
RECURSIVE FirstMatch(_, _)
FirstMatch(p, text) ==
    IF text = <<>> THEN NoMatch
    ELSE IF MatchOf(p, Head(text)).found # "no" THEN MatchOf(p, Head(text))
    ELSE FirstMatch(p, Tail(text))

\* the loop over date_patterns: a pattern whose first match does not parse
\* is passed over
RECURSIVE SpecificDate(_, _, _)
SpecificDate(text, p, last) ==
    IF p > last THEN NoMatch
    ELSE IF FirstMatch(p, text).found = "date" THEN FirstMatch(p, text)
    ELSE SpecificDate(text, p + 1, last)

\* relative_patterns, in the order of the dict
relative_patterns ==
    <<"friday", "monday", "tuesday", "wednesday", "thursday", "tomorrow", "week", "month">>

\* re.search(relative_patterns[j], text)
RelativeFound(relative_type, text) ==
    \/ Has(text, relative_type)
    \/ relative_type = "week" /\ Has(text, "next week")
    \/ relative_type = "month" /\ Has(text, "end of month")

weekdays == <<"monday", "tuesday", "wednesday", "thursday", "friday">>
days == <<"monday", "tuesday", "wednesday", "thursday", "friday", "saturday", "sunday">>

\* days.index(name)
IndexIn(names, name) == (CHOOSE j \in 1..Len(names) : names[j] = name) - 1

\* days_ahead without the step from 0 to 7
DaysAheadSameDay(target_day, current_day) == (target_day - current_day) % 7

\* days_ahead = (target_day - current_day) % 7; 0 becomes 7
DaysAhead(target_day, current_day) ==
    IF (target_day - current_day) % 7 = 0 THEN 7 ELSE (target_day - current_day) % 7

\* ActionExtractor._get_relative_date
get_relative_date(relative_type, today) ==
    IF relative_type = "tomorrow" THEN Strftime(AddDays(today, 1))
    ELSE IF \E j \in 1..Len(weekdays) : weekdays[j] = relative_type
    THEN Strftime(AddDays(today, DaysAhead(IndexIn(days, relative_type), Weekday(today))))
    ELSE IF relative_type = "week" THEN Strftime(AddDays(today, 7))
    ELSE IF relative_type = "month"
    THEN IF today.m = 12
         THEN Strftime(AddDays(Date(today.y + 1, 1, 1), -1))
         ELSE Strftime(AddDays(Date(today.y, today.m + 1, 1), -1))
    ELSE SNone

\* the loop over relative_patterns
RECURSIVE RelativeFrom(_, _, _)
RelativeFrom(j, text, today) ==
    IF j > Len(relative_patterns) THEN SNone
    ELSE IF RelativeFound(relative_patterns[j], text)
    THEN get_relative_date(relative_patterns[j], today)
    ELSE RelativeFrom(j + 1, text, today)

\* ActionExtractor._extract_deadline
extract_deadline(text, today) ==
    IF SpecificDate(text, 1, 3).found = "date"
    THEN Strftime(SpecificDate(text, 1, 3).date)
    ELSE RelativeFrom(1, text, today)

\* CalendarService._extract_date
extract_date(text, today) ==
    IF SpecificDate(text, 1, 2).found = "date"
    THEN Strftime(SpecificDate(text, 1, 2).date)
    ELSE IF Has(text, "tomorrow") THEN Strftime(AddDays(today, 1))
    ELSE IF Has(text, "next week") THEN Strftime(AddDays(today, 7))
    ELSE PyNone

DateWords ==
    {"02/05/2026", "99/99/2026", "mar 3, 2026", "feb 5th, 2026", "5 apr 2026",
     "monday", "friday", "tomorrow", "next week", "end of month", "x"}

DateTexts == UNION {[1..n -> DateWords] : n \in 0..MaxDateWords}

\* the days on which the resolvers are called: a week from Monday 2026-01-26,
\* the middle and the last day of December
Todays ==
    {AddDays(Date(2026, 1, 26), n) : n \in 0..6}
        \cup {Date(2026, 12, 15), Date(2026, 12, 31)}

InitDates ==
    /\ InitMaintained
    /\ ext_out = NoOutcome

\* deadline = self._extract_deadline(combined_text)
ExtractDeadline ==
    /\ ext_out = NoOutcome
    /\ \E text \in DateTexts, today \in Todays :
         /\ ext_in' = [task |-> "deadline", text |-> text, today |-> today]
         /\ ext_out' = Handled(Returns(extract_deadline(text, today)))
    /\ UNCHANGED restVars

\* event_date = self._extract_date(combined)
ExtractDate ==
    /\ ext_out = NoOutcome
    /\ \E text \in DateTexts, today \in Todays :
         /\ ext_in' = [task |-> "event_date", text |-> text, today |-> today]
         /\ ext_out' = Handled(Returns(extract_date(text, today)))
    /\ UNCHANGED restVars

\* self._get_relative_date(relative_type)
GetRelativeDate ==
    /\ ext_out = NoOutcome
    /\ \E name \in SeqToSet(days) \cup {"tomorrow", "week", "month"}, today \in Todays :
         /\ ext_in' = [task |-> "relative", text |-> <<name>>, today |-> today]
         /\ ext_out' = Handled(Returns(get_relative_date(name, today)))
    /\ UNCHANGED restVars

NextDates ==
    \/ ExtractDeadline
    \/ ExtractDate
    \/ GetRelativeDate

\* the two date resolvers applied to one text on one day
SpecDates == InitDates /\ [][NextDates]_vars

\* ------------------------------------------------- the sentiment rule path
SentimentWords == {"urgent", "asap", "bad", "good", "!", "!!", "by tomorrow"}

InitSentiment ==
    /\ InitMaintained
    /\ ext_out = NoOutcome

\* self._analyze_with_rules(subject, content)
AnalyzeWithRules ==
    /\ ext_out = NoOutcome
    /\ \E subject \in UNION {[1..n -> SentimentWords] : n \in 0..1},
          content \in UNION {[1..n -> SentimentWords] : n \in 0..MaxContentLen} :
         /\ ext_in' = [task |-> "sentiment_rules", subject |-> subject,
                        content |-> content]
         /\ ext_out' = Handled(SentimentRules(subject, content, FALSE))
    /\ UNCHANGED restVars

NextSentiment == AnalyzeWithRules

\* the sentiment rule path applied to one subject and one body
SpecSentiment == InitSentiment /\ [][NextSentiment]_vars

\* ================================================================== claims
\* two invocations in sequence that both ran to completion on the same ids,
\* the first one's ledger persisted at its end
TwoRunsOnSameIds ==
    /\ pc = "idle"
    /\ prevRun.ended = "complete"
    /\ prevRun.saved
    /\ thisRun.ended \in {"complete", "early"}
    /\ thisRun.S = prevRun.S

RowsOfBothRuns(m) == prevRun.rows[m] + thisRun.rows[m]

C2_AtMostOneRow == \A m \in MsgIds : sheet[m] <= 1

DeliveredThisRun == {m \in MsgIds : thisRun.rows[m] > 0}

C4_FailureIsContained ==
    [][ ( /\ pc \in {"begin", "enrich", "append", "mark"}
          /\ i' = i + 1
          /\ processed_count' = processed_count )
        => ( /\ failed_count' = failed_count + 1
             /\ ~ is_processed(st', Msg.id)
             /\ Msg.id \in unread'
             /\ pc' = AfterMessage ) ]_vars

\* the category the work list holds for an id
CategoryOf(m) == (CHOOSE e \in SeqToSet(sorted_emails) : e.id = m).category

AttemptsByImportance ==
    \A a, b \in 1..Len(thisRun.attempts) :
        a < b => get_importance(CategoryOf(thisRun.attempts[a]))
                    >= get_importance(CategoryOf(thisRun.attempts[b]))

\* the ids at the first n places of the processing order
FirstIds(n) == {sorted_emails[j].id : j \in 1..Min(n, Len(sorted_emails))}

InLoop == pc \in {"begin", "enrich", "append", "mark", "mark_read", "save"}

\* C5 (as stated): delivery attempts follow non-increasing importance, and at
\* any point where the run may be interrupted the delivered messages are a
\* prefix of the processing order.
C5_DeliveredIsPrefix ==
    InLoop => /\ AttemptsByImportance
              /\ \E n \in 0..Len(sorted_emails) : DeliveredThisRun = FirstIds(n)

\* C5 (amended): delivery attempts follow non-increasing importance, and at
\* any point where the run may be interrupted the messages handled so far
\* (delivered or counted as failed) are a prefix of the processing order:
\* every delivered message lies in it, every message before the current one
\* has been counted.
C5_PriorityOrder ==
    InLoop => /\ AttemptsByImportance
              /\ DeliveredThisRun \subseteq FirstIds(i)
              /\ processed_count + failed_count = i - 1

\* the sort moved a message forward, and both messages got their attempt
C5_Witness ==
    /\ InLoop
    /\ Len(thisRun.attempts) = 2
    /\ sorted_emails # email_categories
    /\ get_importance(sorted_emails[1].category) > get_importance(sorted_emails[2].category)

\* C6: a save_state call that fails to write the temporary file, fails to
\* replace, or is cut short before the replace leaves the durable file as it
\* was when the call began (so it loads to the same state), and a failing call
\* returns False.
C6_AtomicPersistence ==
    /\ pc \in {"save_replace", "l_save_replace"} => file = fileAtSave
    /\ saveFault # "none" =>
          /\ file = fileAtSave
          /\ load_state(file) = load_state(fileAtSave)
    /\ saveFault \in {"write", "replace"} => saveResult = "False"

\* writing the temporary file broke off while the durable file held an
\* earlier, shorter ledger
C6_Witness ==
    /\ saveFault = "write"
    /\ tmpf = BadJsonFile
    /\ file.kind = "object"
    /\ pc = "ready"
    /\ Len(ProcessedIds(st)) > Len(ProcessedIds(load_state(file)))

\* the file is no JSON object holding the id list, the counter and the timestamp
LacksStructure(f) ==
    \/ f.kind # "object"
    \/ ~ ({K_ids, K_ts, K_total} \subseteq DOMAIN json_load(f.text))

\* C7: constructed on a file that is missing, unreadable, not JSON, or JSON
\* without the id list, the counter or the timestamp, the ledger is empty.
C7_LoadResetsToEmpty ==
    (op = "load" /\ LacksStructure(file)) => st = EmptyState

\* C8: right after a successful save_state, a StateManager constructed on the
\* file holds the same ids in the same order, answers is_processed alike and
\* has the same lifetime counter.
C8_RoundTrip ==
    synced =>
        LET reloaded == load_state(file)
        IN /\ ProcessedIds(reloaded) = ProcessedIds(st)
           /\ \A m \in MsgIds : is_processed(reloaded, m) = is_processed(st, m)
           /\ TotalProcessed(reloaded) = TotalProcessed(st)

\* two marks, then a successful save
C8_Witness ==
    /\ synced
    /\ op = "save"
    /\ Cardinality(marked) = 2
    /\ Len(ProcessedIds(st)) >= 2

NoDuplicates(q) == \A a, b \in 1..Len(q) : q[a] = q[b] => a = b

\* C9: on an instance that began empty, the id list never holds a duplicate
\* and the lifetime counter is the number of distinct ids marked; marking a
\* marked id changes nothing; a mark never touches the files.
C9_MarkIdempotent ==
    /\ [](fromEmpty => /\ NoDuplicates(ProcessedIds(st))
                       /\ SeqToSet(ProcessedIds(st)) = marked
                       /\ TotalProcessed(st) = Cardinality(marked))
    /\ [][ (ops' = ops + 1 /\ op' \in {"mark", "mark_raised"})
           => /\ file' = file
              /\ tmpf' = tmpf
              /\ is_processed(st, arg') => st' = st ]_vars

\* id 1 was marked again after id 2 had been marked
C9_Witness ==
    /\ fromEmpty
    /\ op = "mark"
    /\ arg = 1
    /\ ProcessedIds(st) = <<1, 2>>

\* the places of a list whose id is not in the ledger
KeptPlaces(s, q) == {j \in 1..Len(q) : q[j] \notin SeqToSet(ProcessedIds(s))}

\* the k-th smallest element of a set of numbers
KthOf(P, k) == CHOOSE j \in P : Cardinality({x \in P : x <= j}) = k

\* C10: filter_new_messages returns the input ids that are not in the ledger,
\* each as often as it occurs and in input order, and changes nothing.
C10_FilterNew ==
    [][ (ops' = ops + 1 /\ op' = "filter")
        => /\ Len(flt_out') = Cardinality(KeptPlaces(st, flt_in'))
           /\ \A k \in 1..Len(flt_out') :
                 flt_out'[k] = flt_in'[KthOf(KeptPlaces(st, flt_in'), k)]
           /\ st' = st
           /\ file' = file
           /\ tmpf' = tmpf ]_vars

\* a list of a marked id followed by an unmarked one: only the second comes back
C10_Witness ==
    /\ op = "filter"
    /\ Len(flt_in) = MaxListLen
    /\ is_processed(st, flt_in[1])
    /\ flt_out = <<flt_in[MaxListLen]>>

\* no row is appended for an id that compaction dropped from the ledger
NoRowForDropped ==
    \A m \in MsgIds : sheet'[m] > sheet[m] => m \notin dropped

\* C12: every id compaction drops belongs to a message that was marked read
\* when it was delivered, so no later run delivers a row for it again.
C12_CompactionIsSafe ==
    /\ [](\A m \in dropped : m \notin unread)
    /\ [][NoRowForDropped]_vars

\* C11: remove_old_entries(N), N >= 0, leaves at most N ids, namely the N
\* most recently marked ones in their order (all of them when there are no
\* more than N), returns the number of ids it removed, and leaves the
\* lifetime counter alone.
C11_CompactionBound ==
    [][ (ops' = ops + 1 /\ op' = "remove_old")
        => LET before == ProcessedIds(st)
               after  == ProcessedIds(st')
               kept   == IF Len(before) <= keep_count' THEN Len(before) ELSE keep_count'
           IN /\ Len(after) <= keep_count'
              /\ after = SubSeq(before, Len(before) - kept + 1, Len(before))
              /\ removed' = Len(before) - Len(after)
              /\ TotalProcessed(st') = TotalProcessed(st) ]_vars

\* C13: a run that processes messages calls save_state exactly once: not
\* before or between messages, only when every message of the order has been
\* handled, and the call has been made when the summary is printed.
C13_SavedOnceAtEnd ==
    /\ pc \in {"fetch_ids", "filter", "categorize", "begin", "enrich",
                "append", "mark", "mark_read"} => thisRun.saves = 0
    /\ pc = "save" => /\ thisRun.saves = 0
                      /\ i = Len(sorted_emails) + 1
    /\ pc \in {"save_replace", "report"} => /\ thisRun.saves = 1
                                             /\ i = Len(sorted_emails) + 1

\* a run of two messages, one delivered and one failed, about to print its
\* summary after its one save
C13_Witness ==
    /\ pc = "report"
    /\ thisRun.saves = 1
    /\ processed_count = 1
    /\ failed_count = 1

\* C14: a pacing delay lies between every two consecutive messages whatever
\* their outcome (i - 1 delays when message i begins, n - 1 in a run over n
\* messages), none before the first message and none after the last.
C14_PacingBetweenMessages ==
    InLoop => thisRun.delays = (IF pc = "save" THEN Len(sorted_emails) - 1 ELSE i - 1)

\* C15: once authentication and service construction have succeeded, no run
\* ends with a failure exit status.
C15_OnlyStartupAborts ==
    [][ pc # "idle" => thisRun'.ended # "exit1" ]_vars

\* C16: every run that gets past startup and returns, the runs that find no
\* unread message or no new id included, ends with a summary giving the
\* counts of delivered and failed messages.
C16_AlwaysSummary ==
    [][ (pc # "idle" /\ pc' = "idle" /\ thisRun'.ended \in {"early", "complete"})
        => thisRun'.summary = "counts" ]_vars

\* the entries a work list holds for an id
EntriesOf(q, m) == {j \in 1..Len(q) : q[j].id = m}

\* an entry whose first pass failed carries no cached message and 'Other'
DegradedToOther(q) == \A j \in 1..Len(q) : ~ q[j].cached => q[j].category = "Other"

\* the first pass is over and the processing order is built
Sorted == pc \in {"begin", "enrich", "append", "mark", "mark_read", "save",
                  "save_replace", "report"}

\* C17 (as stated): a message whose first pass failed stays in the work list
\* with category 'Other', and by the end of the loop every such message has
\* been given a delivery attempt.
C17_AlwaysAttempted ==
    pc = "save" =>
        \A j \in 1..Len(sorted_emails) :
            ~ sorted_emails[j].cached =>
                /\ sorted_emails[j].category = "Other"
                /\ sorted_emails[j].id \in SeqToSet(thisRun.attempts)

\* C17 (amended): a message whose first pass failed stays in the work list
\* with category 'Other': the first pass builds one entry per id of the
\* filtered list, in its order, and the processing order holds exactly one
\* entry per such id. In the second pass each such message gets its turn: it
\* is fetched again, and then goes on towards its delivery attempt or is
\* counted as failed; when the loop is over every entry has been counted.
C17_NeverDropped ==
    /\ [](pc = "categorize" =>
            /\ Len(email_categories) <= Len(new_message_ids)
            /\ \A j \in 1..Len(email_categories) :
                    email_categories[j].id = new_message_ids[j]
            /\ DegradedToOther(email_categories))
    /\ [](Sorted =>
            /\ Len(sorted_emails) = Len(new_message_ids)
            /\ \A m \in SeqToSet(new_message_ids) :
                    Cardinality(EntriesOf(sorted_emails, m)) = 1
            /\ DegradedToOther(sorted_emails))
    /\ [](pc = "save" => processed_count + failed_count = Len(new_message_ids))
    /\ [][ (pc = "begin" /\ ~ Msg.cached /\ pc' # "idle")
            => \/ pc' = "enrich"
               \/ failed_count' = failed_count + 1 /\ i' = i + 1 ]_vars

\* a message whose first pass failed has been delivered as 'Other', after a
\* message of higher importance
C17_Witness ==
    /\ pc = "mark_read"
    /\ i = 2
    /\ ~ Msg.cached
    /\ Msg.category = "Other"
    /\ thisRun.rows[Msg.id] = 1

\* ------------------------------------------------------------------- C18
TwoPath == {"actions", "sentiment", "event"}

\* a two-path extractor has been called with the model enabled and the model
\* returned text
ModelAnswered ==
    /\ ext_out # NoOutcome
    /\ ext_in.task \in TwoPath
    /\ ext_in.mode = "llm"
    /\ ext_in.reply.kind = "text"

\* the call gave what the rule path gives, called directly on the same
\* subject and the same capped content
SameAsRulePath ==
    ext_out = Handled(RulePath(ext_in.task, ext_in.subject,
                               Cap(ext_in.content, ContentCap), ext_in.fault))

\* C18 (as stated): when the model is enabled and returns text that is not
\* valid JSON, each two-path extractor returns exactly what its rule path
\* returns on the same subject and the same length-capped content.
C18_InvalidJsonFallsBack ==
    (ModelAnswered /\ ~ IsValidJson(ext_in.reply)) => SameAsRulePath

\* C18 (amended): when the model is enabled and returns text that is still not
\* valid JSON once its code-fence markers are removed, each two-path
\* extractor returns exactly what its rule path returns on the same subject
\* and the same length-capped content.
C18_FallbackEquivalence ==
    (ModelAnswered /\ ext_in.reply.shape = "garbage") => SameAsRulePath

\* unparsable text for a message longer than the cap whose subject holds an
\* action: the rule path's actions are returned
C18_Witness ==
    /\ ModelAnswered
    /\ ext_in.task = "actions"
    /\ ext_in.reply.shape = "garbage"
    /\ ~ ext_in.fault
    /\ Len(ext_in.content) > ContentCap
    /\ ext_out.exc = "none"
    /\ ext_out.res.actions # SNone

\* ------------------------------------------------------------------- C19
ListOfStr(v) == v.kind = "list" /\ \A j \in 1..Len(v.items) : v.items[j].kind = "str"

\* the object has every field the extractor reads, each of the right type,
\* inside its allowed set and inside its range
WellFormed(task, o) ==
    CASE task = "actions" ->
           /\ "actions" \in DOMAIN o /\ ListOfStr(o["actions"])
           /\ "deadlines" \in DOMAIN o /\ ListOfStr(o["deadlines"])
      [] task = "sentiment" ->
           /\ "sentiment" \in DOMAIN o /\ o["sentiment"].kind = "str"
           /\ \E l \in valid_sentiments : o["sentiment"].num = <<l>>
           /\ "urgency_score" \in DOMAIN o /\ o["urgency_score"].kind = "int"
           /\ o["urgency_score"].num \in 0..100
      [] OTHER ->
           /\ "has_event" \in DOMAIN o /\ o["has_event"].kind = "bool"
           /\ "event_date" \in DOMAIN o /\ o["event_date"] = PyStr(<<"date">>)
           /\ "event_title" \in DOMAIN o /\ o["event_title"].kind = "str"

\* invalid JSON, JSON that is no object, or an object that is not well formed
Malformed(task, reply) ==
    \/ reply.shape \in {"garbage", "array"}
    \/ reply.shape = "object" /\ ~ WellFormed(task, reply.obj)

\* C19: whenever the model's output is invalid JSON, JSON with missing or
\* invalid fields, or carries out-of-range values, the extractor returns
\* exactly what the rule path returns for that message, and no exception
\* leaves the extractor.
C19_MalformedFallsBack ==
    (ModelAnswered /\ Malformed(ext_in.task, ext_in.reply) /\ ~ ext_in.fault)
        => (SameAsRulePath /\ ext_out.exc = "none")

\* C19, second half alone: malformed output never makes an exception leave
\* the extractor
MalformedIsContained ==
    (ModelAnswered /\ Malformed(ext_in.task, ext_in.reply) /\ ~ ext_in.fault)
        => ext_out.exc = "none"

\* a sentiment label outside the allowed set with an urgency above the range
\* was accepted: the label became neutral and the urgency was clamped, while
\* the rule path says urgent
C19_Witness ==
    /\ ModelAnswered
    /\ ext_in.task = "sentiment"
    /\ ~ ext_in.fault
    /\ Get(ext_in.reply.obj, "sentiment", PyNone) = PyStr(<<"angry">>)
    /\ Get(ext_in.reply.obj, "urgency_score", PyNone) = PyInt(150)
    /\ ext_out.res = Sentiment("neutral", 100)
    /\ SentimentRules(ext_in.subject, Cap(ext_in.content, ContentCap), FALSE).res
          = Sentiment("urgent", 90)

\* ------------------------------------------------------------------- C20
\* C20: an exception raised inside an extractor, in its model path or in its
\* deterministic path, does not fail the message: the message continues
\* towards its delivery attempt.
C20_ExtractorErrorContained ==
    ext_out # NoOutcome => ext_out.message = "continues"

\* C20, model path alone: when the deterministic path does not raise, whatever
\* the model path raises stays inside the extractor
ModelPathErrorContained ==
    (ext_out # NoOutcome /\ ~ ext_in.fault) => ext_out.message = "continues"

\* the model is enabled and answers unparsable text, the deterministic path
\* the extractor then falls back to raises, and the message is failed
C20_Witness ==
    /\ ModelAnswered
    /\ ext_in.reply.shape = "garbage"
    /\ ext_in.fault
    /\ ext_out.exc # "none"
    /\ ext_out.message = "failed"

\* ------------------------------------------------------------------- C21
\* a real value or a sentinel: a str that is not empty
Populated(v) == v.kind = "str" /\ v.num # <<>>

RowBuilt == ext_out # NoOutcome /\ ext_out.exc = "none"

\* C21: every row handed to the delivery store has its 19 fields, and every
\* field holds a real value or its sentinel, never an empty or undefined
\* value, whichever path produced it and whatever the model returned.
C21_RowFullyPopulated ==
    RowBuilt => /\ Len(ext_out.res) = 19
                /\ \A j \in 1..19 : Populated(ext_out.res[j])

\* C21, the part that holds: the row always has its 19 fields
RowHasNineteenFields == RowBuilt => Len(ext_out.res) = 19

\* the model answered a deadline list holding null: the row's due date is
\* undefined although every header and the body were there
C21_Witness ==
    /\ RowBuilt
    /\ ext_in.message = [has_date |-> TRUE, subject |-> "text", body |-> <<"x">>]
    /\ ext_out.res[10] = PyNone
    /\ \A j \in 1..9 : Populated(ext_out.res[j])

\* ------------------------------------------------------------------- C22
Categorized == ext_out # NoOutcome /\ ext_in.task = "categorize"

\* the j-th category of the table matches the message: one of its sender
\* patterns occurs in the sender, or one of its keywords occurs in subject,
\* content or sender
Matches(rules, j, parsed) ==
    \/ \E pt \in rules[j].senders : Has(LowerText(parsed.from), LowerWord(pt))
    \/ \E kw \in rules[j].keywords :
          \/ Has(LowerText(parsed.subject), LowerWord(kw))
          \/ Has(LowerText(parsed.content), LowerWord(kw))
          \/ Has(LowerText(parsed.from), LowerWord(kw))

\* C22: categorize_email returns the first category in rule-table order that
\* matches by sender pattern or by keyword, so an earlier category's keyword
\* match wins over a later category's sender match; with no match the result
\* is 'Other'.
C22_DeclarationOrderWins ==
    Categorized =>
        LET rules  == ext_in.rules
            parsed == ext_in.parsed
            hits   == {j \in 1..Len(rules) : Matches(rules, j, parsed)}
        IN IF hits = {} THEN ext_out.res = PyStr(<<"Other">>)
           ELSE \E j \in hits : /\ \A k \in hits : j <= k
                                 /\ ext_out.res = PyStr(<<CategoryNames[j]>>)

\* the first category matches by keyword only, the second by sender, and the
\* first is returned
C22_Witness ==
    /\ Categorized
    /\ Len(ext_in.rules) >= 2
    /\ ~ AnyIn(ext_in.rules[1].senders, LowerText(ext_in.parsed.from))
    /\ AnyIn(ext_in.rules[1].keywords, LowerText(ext_in.parsed.subject))
    /\ AnyIn(ext_in.rules[2].senders, LowerText(ext_in.parsed.from))
    /\ ext_out.res = PyStr(<<CategoryNames[1]>>)

\* ------------------------------------------------------------------- C23
DeadlineOf(text, today) ==
    ext_out # NoOutcome /\ ext_in.task = "deadline" /\ ext_in.text = text
        /\ ext_in.today = today

Iso(y, m, d) == PyStr(<<y, "-", m, "-", d>>)

\* C23: "Feb 5th, 2026" and "02/05/2026" both resolve to 2026-02-05, "by
\* Friday" on Monday 2026-01-26 resolves to 2026-01-30, and "end of month" on
\* 2026-12-15 resolves to 2026-12-31.
C23_SpecExamples ==
    /\ \A today \in Todays :
          /\ DeadlineOf(<<"feb 5th, 2026">>, today) => ext_out.res = Iso("2026", "02", "05")
          /\ DeadlineOf(<<"02/05/2026">>, today) => ext_out.res = Iso("2026", "02", "05")
    /\ DeadlineOf(<<"friday">>, Date(2026, 1, 26)) => ext_out.res = Iso("2026", "01", "30")
    /\ DeadlineOf(<<"end of month">>, Date(2026, 12, 15))
          => ext_out.res = Iso("2026", "12", "31")

\* C23 without its first example
OtherExamplesResolve ==
    /\ \A today \in Todays :
          DeadlineOf(<<"02/05/2026">>, today) => ext_out.res = Iso("2026", "02", "05")
    /\ DeadlineOf(<<"friday">>, Date(2026, 1, 26)) => ext_out.res = Iso("2026", "01", "30")
    /\ DeadlineOf(<<"end of month">>, Date(2026, 12, 15))
          => ext_out.res = Iso("2026", "12", "31")

\* "Feb 5th, 2026" alone in a text resolves to nothing
C23_Witness ==
    /\ DeadlineOf(<<"feb 5th, 2026">>, Date(2026, 1, 26))
    /\ ext_out.res = SNone

\* ------------------------------------------------------------------- C24
RelativeOf(name) ==
    ext_out # NoOutcome /\ ext_in.task = "relative" /\ ext_in.text = <<name>>

\* C24: for every current weekday and every weekday name the resolver
\* supports, the resolved date falls on the named weekday and lies 1 to 7
\* days after today; on the named weekday itself it is today + 7.
C24_WeekdayStrictlyAhead ==
    \A name \in SeqToSet(weekdays) :
       RelativeOf(name) =>
          \E k \in 1..7 :
             /\ ext_out.res = Strftime(AddDays(ext_in.today, k))
             /\ Weekday(AddDays(ext_in.today, k)) = IndexIn(days, name)
             /\ Weekday(ext_in.today) = IndexIn(days, name) => k = 7

\* "friday" asked on Friday 2026-01-30 gives Friday 2026-02-06
C24_Witness ==
    /\ RelativeOf("friday")
    /\ ext_in.today = Date(2026, 1, 30)
    /\ ext_out.res = Iso("2026", "02", "06")

\* ------------------------------------------------------------------- C25
\* the class of a date expression: 1 numeric date, 2 month-name date,
\* 3 relative weekday, 4 relative term, 0 none
ClassOf(word) ==
    CASE word \in {"02/05/2026", "99/99/2026"}                   -> 1
      [] word \in {"mar 3, 2026", "5 apr 2026", "feb 5th, 2026"} -> 2
      [] word \in {"monday", "friday"}                           -> 3
      [] word \in {"tomorrow", "next week", "end of month"}      -> 4
      [] OTHER                                                    -> 0

\* what a well-formed date expression stands for, on its own
ResolvedAlone(word, today) ==
    CASE word = "02/05/2026"   -> Iso("2026", "02", "05")
      [] word = "mar 3, 2026"  -> Iso("2026", "03", "03")
      [] word = "5 apr 2026"   -> Iso("2026", "04", "05")
      [] word = "next week"    -> Strftime(AddDays(today, 7))
      [] word = "tomorrow"     -> Strftime(AddDays(today, 1))
      [] word = "end of month" -> Strftime(Date(today.y, today.m, DaysIn(today.y, today.m)))
      [] OTHER -> Strftime(AddDays(today,
                     CHOOSE k \in 1..7 : Weekday(AddDays(today, k)) = IndexIn(days, word)))

WellFormedDates(text) ==
    \A j \in 1..Len(text) : text[j] \notin {"99/99/2026", "feb 5th, 2026"}

\* C25: the classes are tried in the order numeric date, month-name date,
\* relative weekday, relative term; the first class with a match decides, and
\* within it the match that comes first in the text; with no match the result
\* is 'None'.  (Stated for texts whose date expressions are all well formed.)
C25_FirstClassFirstMatch ==
    (ext_out # NoOutcome /\ ext_in.task = "deadline" /\ WellFormedDates(ext_in.text)) =>
       LET text  == ext_in.text
           found == {j \in 1..Len(text) : ClassOf(text[j]) # 0}
       IN IF found = {} THEN ext_out.res = SNone
          ELSE \E j \in found :
                 /\ \A k \in found :
                       \/ ClassOf(text[j]) < ClassOf(text[k])
                       \/ ClassOf(text[j]) = ClassOf(text[k]) /\ j <= k
                 /\ ext_out.res = ResolvedAlone(text[j], ext_in.today)

\* C25, between classes only: the result is what some expression of the
\* first class that matches stands for
FirstClassDecides ==
    (ext_out # NoOutcome /\ ext_in.task = "deadline" /\ WellFormedDates(ext_in.text)) =>
       LET text  == ext_in.text
           found == {j \in 1..Len(text) : ClassOf(text[j]) # 0}
       IN IF found = {} THEN ext_out.res = SNone
          ELSE \E j \in found :
                 /\ \A k \in found : ClassOf(text[j]) <= ClassOf(text[k])
                 /\ ext_out.res = ResolvedAlone(text[j], ext_in.today)

\* "monday ... friday" on Monday 2026-01-26: Friday is resolved although
\* Monday comes first in the text
C25_Witness ==
    /\ DeadlineOf(<<"monday", "friday">>, Date(2026, 1, 26))
    /\ ext_out.res = Iso("2026", "01", "30")

\* ------------------------------------------------------------------- C30
\* C30: on every text the event date of CalendarService._extract_date equals
\* the deadline of ActionExtractor._extract_deadline, with no event date
\* exactly when the deadline is 'None'.
C30_SameResolver ==
    (ext_out # NoOutcome /\ ext_in.task = "deadline") =>
        extract_date(ext_in.text, ext_in.today)
            = (IF ext_out.res = SNone THEN PyNone ELSE ext_out.res)

\* "by friday" has a deadline and no event date
C30_Witness ==
    /\ DeadlineOf(<<"friday">>, Date(2026, 1, 26))
    /\ ext_out.res = Iso("2026", "01", "30")
    /\ extract_date(ext_in.text, ext_in.today) = PyNone

\* ------------------------------------------------------------------- C26
RulesAnalyzed == ext_out # NoOutcome /\ ext_in.task = "sentiment_rules"

\* the number of distinct words of the set found in subject or body
Distinct(keywords) ==
    Cardinality({w \in keywords :
                    \/ \E j \in 1..Len(ext_in.subject) : ext_in.subject[j] = w
                    \/ \E j \in 1..Len(ext_in.content) : ext_in.content[j] = w})

\* C26: with u, n, p the numbers of distinct urgent, negative and positive
\* keywords, the result is urgent with base 0.9 when u >= 2, else negative
\* with 0.6 when n > p, else positive with 0.3 when p > n, else neutral with
\* 0.5; the adjustments only raise the score and the score never exceeds 1.0.
C26_SentimentDecision ==
    RulesAnalyzed =>
       LET u     == Distinct({"urgent", "asap"})
           n     == Distinct({"bad"})
           p     == Distinct({"good"})
           label == ext_out.res.sentiment
           score == ext_out.res.urgency_score.num
           base  == CASE u >= 2 -> 90 [] u < 2 /\ n > p -> 60
                      [] u < 2 /\ p > n -> 30 [] OTHER -> 50
       IN /\ u >= 2 => label = PyStr(<<"urgent">>)
          /\ (u < 2 /\ n > p) => label = PyStr(<<"negative">>)
          /\ (u < 2 /\ p > n) => label = PyStr(<<"positive">>)
          /\ (u < 2 /\ n = p) => label = PyStr(<<"neutral">>)
          /\ base <= score
          /\ score <= 100

\* two distinct urgent keywords and a negative one: urgent, 0.9 or more
C26_Witness ==
    /\ RulesAnalyzed
    /\ Distinct({"urgent", "asap"}) = 2
    /\ Distinct({"bad"}) = 1
    /\ ext_out.res.sentiment = PyStr(<<"urgent">>)
    /\ ext_out.res.urgency_score.num >= 90

\* ------------------------------------------------------------------- C29
\* the loop is at message i
AtMessage == pc \in {"begin", "enrich", "append", "mark", "mark_read"}

\* a step that counts the message at hand as delivered leaves it marked in
\* the ledger
DeliveredIsMarked ==
    (AtMessage /\ processed_count' = processed_count + 1) => is_processed(st', Msg.id)

\* a step that counts the message at hand as failed leaves it out of the
\* ledger
FailedIsNotMarked ==
    (AtMessage /\ failed_count' = failed_count + 1) => ~ is_processed(st', Msg.id)

\* a step that leaves the message at hand counts it once, as delivered or as
\* failed
CountedOnce ==
    (AtMessage /\ pc' # "idle" /\ i' # i) =>
        /\ i' = i + 1
        /\ \/ processed_count' = processed_count + 1 /\ failed_count' = failed_count
           \/ processed_count' = processed_count /\ failed_count' = failed_count + 1

\* when the loop has ended every message of the work list has been counted
AllCounted == pc = "save" => processed_count + failed_count = Len(sorted_emails)

\* C29: every message of a run ends in exactly one terminal state: when the
\* loop ends each message of the work list was counted exactly once, as
\* delivered or as failed; a delivered message is marked in the ledger, a
\* failed one is not.
C29_OneTerminalState ==
    /\ []AllCounted
    /\ [][CountedOnce]_vars
    /\ [][DeliveredIsMarked]_vars
    /\ [][FailedIsNotMarked]_vars

\* C29 without its last part: counted exactly once, delivered is marked
C29_CountedExactlyOnce ==
    /\ []AllCounted
    /\ [][CountedOnce]_vars
    /\ [][DeliveredIsMarked]_vars

\* the loop has ended with every message counted as failed, and every one of
\* them has its row in the sheet and its id in the ledger
C29_Witness ==
    /\ pc = "save"
    /\ processed_count = 0
    /\ failed_count = NumMsgs
    /\ \A j \in 1..Len(sorted_emails) :
          /\ is_processed(st, sorted_emails[j].id)
          /\ thisRun.rows[sorted_emails[j].id] = 1

\* ------------------------------------------------------------------- C28
\* C28: within a single run append_row is called at most once for each
\* message id, even when the listing of unread ids holds an id more than
\* once.
C28_OneAppendPerRun ==
    InLoop => \A a, b \in 1..Len(thisRun.attempts) :
                 thisRun.attempts[a] = thisRun.attempts[b] => a = b

\* the listing held one id twice and the run appended two rows for it
C28_Witness ==
    /\ InLoop
    /\ Len(all_message_ids) = 2
    /\ all_message_ids[1] = all_message_ids[2]
    /\ thisRun.rows[all_message_ids[1]] = 2

\* ------------------------------------------------------------------- C27
\* C27: across any sequence of runs at most one calendar event is created
\* for a message id; a message whose delivery fails, or whose processing
\* raises after the calendar step, and that a later run retries, does not
\* get a second event.
C27_AtMostOneEvent == \A m \in MsgIds : events[m] <= 1

\* a run created an event for the message and did not deliver it; a later
\* run has taken the message up again and stands past the calendar step
C27_Witness ==
    /\ runs = 2
    /\ pc = "append"
    /\ events[Msg.id] >= 1
    /\ sheet[Msg.id] = 0
    /\ Msg.id \in prevRun.S
    /\ prevRun.rows[Msg.id] = 0

====
